---- MODULE Spec2Model ----
(***************************************************************************)
(* The expression parser and evaluator of rum-templates                    *)
(* (src/rum-templates/src/language/expression.rs).                         *)
(*                                                                         *)
(* A Peekable iterator of TokenWithContext is a sequence: peek is Head,    *)
(* next is Head together with Tail.  Every parsing function returns a      *)
(* record holding either the expression and the iterator it leaves behind  *)
(* (ok = TRUE) or the error (ok = FALSE).                                  *)
(***************************************************************************)
EXTENDS Integers, Sequences, FiniteSets, TLC

VARIABLES scen, tokens, phase, result, value, loop, ctx, evals,
          url, decoded, parsed, outcome, query, calls

\* The state of the http functions (src/rum/src/http) and of the query
\* builder (src/rum/src/model).
httpVars == <<url, decoded, parsed, outcome>>

modelVars == <<query, calls>>

vars == <<scen, tokens, phase, result, value, loop, ctx, evals, httpVars, modelVars>>

(***************************************************************************)
(* Bounds of the enumeration of inputs.                                    *)
(***************************************************************************)
MaxLen == 7

\* The loops are followed iteration by iteration on at most this many tokens
\* after a scenario's prefix.
LoopLen == 4

\* The longest list of terms, and one more than the longest list of
\* arguments, of the trees that are evaluated step by step.
MaxTerms == 3

----------------------------------------------------------------------------
(* Tokens and values *)

Integer(n) == [t |-> "Integer", v |-> n]

TValue(n) == [kind |-> "Value", value |-> Integer(n)]

TVariable(s) == [kind |-> "Variable", name |-> s]

TSym(k) == [kind |-> k]

\* TokenWithContext: the token and where it stood in the source.
WithContext(toks) == [i \in 1..Len(toks) |-> [token |-> toks[i], pos |-> i]]

\* TokenWithContext::token()
Kind(twc) == twc.token.kind

----------------------------------------------------------------------------
(* Expression *)

constant(v) == [node |-> "Term", term |-> [kind |-> "constant", value |-> v]]

variable(s) == [node |-> "Term", term |-> [kind |-> "variable", name |-> s]]

Binary(l, op, r) == [node |-> "Binary", left |-> l, op |-> op, right |-> r]

Unary(op, e) == [node |-> "Unary", op |-> op, operand |-> e]

List(ts) == [node |-> "List", terms |-> ts]

FunctionNode(e, n, as) == [node |-> "Function", term |-> e, name |-> n, args |-> as]

----------------------------------------------------------------------------
(* Results *)

Ok(e, it) == [ok |-> TRUE, expr |-> e, rest |-> it]

Eof(msg) == [ok |-> FALSE, err |-> [kind |-> "Eof", msg |-> msg]]

ExpressionSyntax(twc) == [ok |-> FALSE, err |-> [kind |-> "ExpressionSyntax", token |-> twc]]

----------------------------------------------------------------------------
(* Op: the operator model.  Its source is not part of src/; it is modelled *)
(* from section 4.1 of the specification: a fixed rank table in which a    *)
(* lower rank binds tighter.                                               *)

FromToken(tok) ==
    CASE tok.kind = "Plus" -> "Add"
      [] tok.kind = "Minus" -> "Sub"
      [] tok.kind = "Star" -> "Mul"
      [] tok.kind = "Slash" -> "Div"
      [] tok.kind = "Eq" -> "Eq"
      [] tok.kind = "And" -> "And"
      [] tok.kind = "Or" -> "Or"
      [] OTHER -> "None"

Rank(op) ==
    CASE op = "Not" -> 0
      [] op \in {"Mul", "Div"} -> 1
      [] op \in {"Add", "Sub"} -> 2
      [] op = "Eq" -> 3
      [] op \in {"And", "Or"} -> 4

\* second_op < op
OpLess(a, b) == Rank(a) < Rank(b)

----------------------------------------------------------------------------
(* The loops of the parser, one iteration each.  A loop state carries the  *)
(* loop's local variables, the iterator, and status: "run" while the loop  *)
(* goes on, "done" once it has exited, "err" when the function returned an *)
(* error from inside it.                                                   *)

RECURSIVE Parse(_)
RECURSIVE Term(_)
RECURSIVE Function(_, _)

\* term: while count > 0 { ... }
BracketInit(it) == [status |-> "run", count |-> 1, expr |-> <<>>, iter |-> it]

BracketExit(s) == [s EXCEPT !.status = IF s.count > 0 THEN "run" ELSE "done"]

\* BracketStep without the count of nested brackets: the first closing
\* bracket ends the group.
BracketStepFirstClose(s) ==
    IF s.iter = <<>>
    THEN [status |-> "err", error |-> Eof("round bracket start"), iter |-> s.iter]
    ELSE LET next == Head(s.iter) IN
         CASE Kind(next) = "RoundBracketEnd" ->
                [s EXCEPT !.status = "done", !.count = 0, !.iter = Tail(@)]
           [] Kind(next) = "BlockEnd" ->
                [status |-> "err", error |-> ExpressionSyntax(next), iter |-> s.iter]
           [] OTHER ->
                BracketExit([s EXCEPT !.expr = Append(@, next), !.iter = Tail(@)])

\* BracketStep without the arm for BlockEnd.
BracketStepNoBlockEnd(s) ==
    IF s.iter = <<>>
    THEN [status |-> "err", error |-> Eof("round bracket start"), iter |-> s.iter]
    ELSE LET next == Head(s.iter) IN
         CASE Kind(next) = "RoundBracketStart" ->
                BracketExit([s EXCEPT !.count = @ + 1,
                                      !.expr = Append(@, next),
                                      !.iter = Tail(@)])
           [] Kind(next) = "RoundBracketEnd" ->
                IF s.count - 1 > 0
                THEN BracketExit([s EXCEPT !.count = @ - 1,
                                           !.expr = Append(@, next),
                                           !.iter = Tail(@)])
                ELSE BracketExit([s EXCEPT !.count = @ - 1, !.iter = Tail(@)])
           [] OTHER ->
                BracketExit([s EXCEPT !.expr = Append(@, next), !.iter = Tail(@)])

\* BracketStep that only peeks at an inner closing bracket: it counts it and
\* leaves it in the iterator.
BracketStepStall(s) ==
    IF s.iter = <<>>
    THEN [status |-> "err", error |-> Eof("round bracket start"), iter |-> s.iter]
    ELSE LET next == Head(s.iter) IN
         CASE Kind(next) = "RoundBracketStart" ->
                BracketExit([s EXCEPT !.count = @ + 1,
                                      !.expr = Append(@, next),
                                      !.iter = Tail(@)])
           [] Kind(next) = "RoundBracketEnd" ->
                IF s.count - 1 > 0
                THEN BracketExit([s EXCEPT !.count = @ - 1])
                ELSE BracketExit([s EXCEPT !.count = @ - 1, !.iter = Tail(@)])
           [] Kind(next) = "BlockEnd" ->
                [status |-> "err", error |-> ExpressionSyntax(next), iter |-> s.iter]
           [] OTHER ->
                BracketExit([s EXCEPT !.expr = Append(@, next), !.iter = Tail(@)])

BracketStep(s) ==
    IF s.iter = <<>>
    THEN [status |-> "err", error |-> Eof("round bracket start"), iter |-> s.iter]
    ELSE LET next == Head(s.iter) IN
         CASE Kind(next) = "RoundBracketStart" ->
                BracketExit([s EXCEPT !.count = @ + 1,
                                      !.expr = Append(@, next),
                                      !.iter = Tail(@)])
           [] Kind(next) = "RoundBracketEnd" ->
                IF s.count - 1 > 0
                THEN BracketExit([s EXCEPT !.count = @ - 1,
                                           !.expr = Append(@, next),
                                           !.iter = Tail(@)])
                ELSE BracketExit([s EXCEPT !.count = @ - 1, !.iter = Tail(@)])
           [] Kind(next) = "BlockEnd" ->
                [status |-> "err", error |-> ExpressionSyntax(next), iter |-> s.iter]
           [] OTHER ->
                BracketExit([s EXCEPT !.expr = Append(@, next), !.iter = Tail(@)])

RECURSIVE BracketLoop(_)
BracketLoop(s) == IF s.status = "run" THEN BracketLoop(BracketStep(s)) ELSE s

\* term: the loop over a list literal
ListInit(it) == [status |-> "run", terms |-> <<>>, iter |-> it]

\* ListStep that skips every token it does not know, as it skips a comma.
ListStepSkipOther(s) ==
    IF s.iter = <<>>
    THEN [status |-> "err", error |-> Eof("term token"), iter |-> s.iter]
    ELSE LET next == Head(s.iter) IN
         CASE Kind(next) = "SquareBracketEnd" ->
                [s EXCEPT !.status = "done", !.iter = Tail(@)]
           [] Kind(next) = "Value" ->
                [s EXCEPT !.terms = Append(@, constant(next.token.value)),
                          !.iter = Tail(@)]
           [] Kind(next) = "Variable" ->
                [s EXCEPT !.terms = Append(@, variable(next.token.name)),
                          !.iter = Tail(@)]
           [] OTHER ->
                [s EXCEPT !.iter = Tail(@)]

\* ListStep without the arm for Comma.
ListStepNoComma(s) ==
    IF s.iter = <<>>
    THEN [status |-> "err", error |-> Eof("term token"), iter |-> s.iter]
    ELSE LET next == Head(s.iter) IN
         CASE Kind(next) = "SquareBracketEnd" ->
                [s EXCEPT !.status = "done", !.iter = Tail(@)]
           [] Kind(next) = "Value" ->
                [s EXCEPT !.terms = Append(@, constant(next.token.value)),
                          !.iter = Tail(@)]
           [] Kind(next) = "Variable" ->
                [s EXCEPT !.terms = Append(@, variable(next.token.name)),
                          !.iter = Tail(@)]
           [] OTHER ->
                [status |-> "err", error |-> ExpressionSyntax(next), iter |-> Tail(s.iter)]

ListStep(s) ==
    IF s.iter = <<>>
    THEN [status |-> "err", error |-> Eof("term token"), iter |-> s.iter]
    ELSE LET next == Head(s.iter) IN
         CASE Kind(next) = "SquareBracketEnd" ->
                [s EXCEPT !.status = "done", !.iter = Tail(@)]
           [] Kind(next) = "Comma" ->
                [s EXCEPT !.iter = Tail(@)]
           [] Kind(next) = "Value" ->
                [s EXCEPT !.terms = Append(@, constant(next.token.value)),
                          !.iter = Tail(@)]
           [] Kind(next) = "Variable" ->
                [s EXCEPT !.terms = Append(@, variable(next.token.name)),
                          !.iter = Tail(@)]
           [] OTHER ->
                [status |-> "err", error |-> ExpressionSyntax(next), iter |-> Tail(s.iter)]

RECURSIVE ListLoop(_)
ListLoop(s) == IF s.status = "run" THEN ListLoop(ListStep(s)) ELSE s

\* function: the loop over the arguments of a call
ArgsInit(it) == [status |-> "run", buffer |-> <<>>, args |-> <<>>, iter |-> it]

\* args.push(Self::parse(...)?) with the result p of that parse
ArgsPush(s, p) ==
    IF p.ok
    THEN [s EXCEPT !.args = Append(@, p.expr), !.buffer = <<>>, !.iter = Tail(@)]
    ELSE [status |-> "err", error |-> p, iter |-> Tail(s.iter)]

\* ArgsStep that parses a buffer only when it holds tokens: an empty
\* argument is passed over.
ArgsStepSkipEmpty(s) ==
    IF s.iter = <<>>
    THEN [s EXCEPT !.status = "done"]
    ELSE IF Kind(Head(s.iter)) \in {"RoundBracketEnd", "Comma"}
         THEN IF s.buffer = <<>>
              THEN [s EXCEPT !.iter = Tail(@)]
              ELSE ArgsPush(s, Parse(s.buffer))
         ELSE [s EXCEPT !.buffer = Append(@, Head(s.iter)), !.iter = Tail(@)]

ArgsStep(s) ==
    IF s.iter = <<>>
    THEN [s EXCEPT !.status = "done"]
    ELSE IF Kind(Head(s.iter)) \in {"RoundBracketEnd", "Comma"}
         THEN ArgsPush(s, Parse(s.buffer))
         ELSE [s EXCEPT !.buffer = Append(@, Head(s.iter)), !.iter = Tail(@)]

RECURSIVE ArgsLoop(_)
ArgsLoop(s) == IF s.status = "run" THEN ArgsLoop(ArgsStep(s)) ELSE s

\* n.to_string() of an integer: its decimal digits
IntToString(n) == ToString(n)

\* function: loop { ... }, one accessor per iteration
FunctionInit(e, it) == [status |-> "run", expr |-> e, iter |-> it]

\* The Function node of an accessor with an argument list, a being the
\* argument loop when it has ended.
FunctionCall(s, name, a) ==
    IF a.status = "err"
    THEN a
    ELSE [s EXCEPT !.expr = FunctionNode(@, name, a.args), !.iter = a.iter]

\* FunctionStep without the arm for `list.0`: only a name may follow a Dot.
FunctionStepNoIndex(s) ==
    IF s.iter # <<>> /\ Kind(Head(s.iter)) = "Dot"
    THEN LET it1 == Tail(s.iter) IN
         IF it1 = <<>>
         THEN [status |-> "err", error |-> Eof("accessor name"), iter |-> it1]
         ELSE LET name == Head(it1)
                  it2 == Tail(it1)
              IN  CASE Kind(name) = "Variable" ->
                         IF it2 # <<>> /\ Kind(Head(it2)) = "RoundBracketStart"
                         THEN FunctionCall(s, name.token.name,
                                           ArgsLoop(ArgsInit(Tail(it2))))
                         ELSE [s EXCEPT !.expr = FunctionNode(@, name.token.name, <<>>),
                                        !.iter = it2]
                    [] OTHER ->
                         [status |-> "err", error |-> ExpressionSyntax(name), iter |-> it2]
    ELSE [s EXCEPT !.status = "done"]

FunctionStep(s) ==
    IF s.iter # <<>> /\ Kind(Head(s.iter)) = "Dot"
    THEN LET it1 == Tail(s.iter) IN
         IF it1 = <<>>
         THEN [status |-> "err", error |-> Eof("accessor name"), iter |-> it1]
         ELSE LET name == Head(it1)
                  it2 == Tail(it1)
              IN  CASE Kind(name) = "Variable" ->
                         IF it2 # <<>> /\ Kind(Head(it2)) = "RoundBracketStart"
                         THEN FunctionCall(s, name.token.name,
                                           ArgsLoop(ArgsInit(Tail(it2))))
                         ELSE [s EXCEPT !.expr = FunctionNode(@, name.token.name, <<>>),
                                        !.iter = it2]
                    [] Kind(name) = "Value" /\ name.token.value.t = "Integer" ->
                         [s EXCEPT !.expr = FunctionNode(@, IntToString(name.token.value.v), <<>>),
                                   !.iter = it2]
                    [] OTHER ->
                         [status |-> "err", error |-> ExpressionSyntax(name), iter |-> it2]
    ELSE [s EXCEPT !.status = "done"]

RECURSIVE FunctionLoop(_)
FunctionLoop(s) == IF s.status = "run" THEN FunctionLoop(FunctionStep(s)) ELSE s

----------------------------------------------------------------------------
(* Expression::function, Expression::term, Expression::parse.  A result    *)
(* that the code tests with `?` is handed to the definition that goes on   *)
(* with it.                                                                *)

FunctionEnd(s) == IF s.status = "err" THEN s.error ELSE Ok(s.expr, s.iter)

Function(e, it) == FunctionEnd(FunctionLoop(FunctionInit(e, it)))

\* Self::function(expr, iter)? on the expression a term starts with
FunctionOf(b) == IF b.ok THEN Function(b.expr, b.rest) ELSE b

\* The operator of a unary token.
UnaryOp(tok) ==
    CASE tok.kind = "Not" -> "Not"
      [] tok.kind = "Minus" -> "Sub"
      [] tok.kind = "Plus" -> "Add"

\* Expression::Unary around the term r that follows the operator.
UnaryOf(op, r) == IF r.ok THEN Ok(Unary(op, r.expr), r.rest) ELSE r

\* Self::parse(&mut expr.into_iter().peekable())? on the tokens of a group,
\* the iterator going on after the group.
BracketParsed(p, it) == IF p.ok THEN Ok(p.expr, it) ELSE p

\* A parenthesised group, s being the bracket loop when it has ended.
BracketTerm(s) ==
    IF s.status = "err" THEN s.error ELSE BracketParsed(Parse(s.expr), s.iter)

\* A list literal, s being the list loop when it has ended.
ListTerm(s) ==
    IF s.status = "err" THEN s.error ELSE Ok(List(s.terms), s.iter)

\* The expression a term starts with, before its accessors.
TermStart(next, it) ==
    CASE Kind(next) = "RoundBracketStart" -> BracketTerm(BracketLoop(BracketInit(it)))
      [] Kind(next) = "Variable" -> Ok(variable(next.token.name), it)
      [] Kind(next) = "Value" -> Ok(constant(next.token.value), it)
      [] Kind(next) = "SquareBracketStart" -> ListTerm(ListLoop(ListInit(it)))
      [] OTHER -> ExpressionSyntax(next)

\* Term that reads the operand of a unary operator with parse: the operand
\* takes the binary operators that follow it.
TermUnaryParse(iter) ==
    IF iter = <<>>
    THEN Eof("term next")
    ELSE IF Kind(Head(iter)) \in {"Not", "Minus", "Plus"}
         THEN UnaryOf(UnaryOp(Head(iter).token), Parse(Tail(iter)))
         ELSE FunctionOf(TermStart(Head(iter), Tail(iter)))

Term(iter) ==
    IF iter = <<>>
    THEN Eof("term next")
    ELSE IF Kind(Head(iter)) \in {"Not", "Minus", "Plus"}
         THEN UnaryOf(UnaryOp(Head(iter).token), Term(Tail(iter)))
         ELSE FunctionOf(TermStart(Head(iter), Tail(iter)))

\* Group with `second_op <= op` in the place of `second_op < op`.
GroupNotStrict(left, op, right, second_op, right2) ==
    IF ~OpLess(op, second_op)
    THEN Binary(left, op, Binary(right, second_op, right2))
    ELSE Binary(Binary(left, op, right), second_op, right2)

\* parse: the grouping of `left op right second_op right2`
Group(left, op, right, second_op, right2) ==
    IF OpLess(second_op, op)
    THEN Binary(left, op, Binary(right, second_op, right2))
    ELSE Binary(Binary(left, op, right), second_op, right2)

\* parse, r2 being Expression::parse(iter) after the second operator
ParseThird(left, op, right, second_op, r2) ==
    IF r2.ok
    THEN Ok(Group(left, op, right, second_op, r2.expr), r2.rest)
    ELSE r2

\* ParseSecond that reads one term after the second operator, where parse
\* reads all that is left.
ParseSecondOneTerm(left, op, r) ==
    IF ~r.ok
    THEN r
    ELSE IF r.rest = <<>> \/ Kind(Head(r.rest)) = "BlockEnd"
         THEN Ok(Binary(left, op, r.expr), r.rest)
         ELSE IF FromToken(Head(r.rest).token) # "None"
              THEN ParseThird(left, op, r.expr, FromToken(Head(r.rest).token),
                              Term(Tail(r.rest)))
              ELSE ExpressionSyntax(Head(r.rest))

\* parse, r being the right term
ParseSecond(left, op, r) ==
    IF ~r.ok
    THEN r
    ELSE IF r.rest = <<>> \/ Kind(Head(r.rest)) = "BlockEnd"
         THEN Ok(Binary(left, op, r.expr), r.rest)
         ELSE IF FromToken(Head(r.rest).token) # "None"
              THEN ParseThird(left, op, r.expr, FromToken(Head(r.rest).token),
                              Parse(Tail(r.rest)))
              ELSE ExpressionSyntax(Head(r.rest))

\* parse, l being the left term
ParseFirst(l) ==
    IF ~l.ok
    THEN l
    ELSE IF l.rest = <<>>
         THEN Ok(l.expr, l.rest)
         ELSE IF FromToken(Head(l.rest).token) # "None"
              THEN ParseSecond(l.expr, FromToken(Head(l.rest).token),
                               Term(Tail(l.rest)))
              ELSE Ok(l.expr, l.rest)

Parse(iter) == ParseFirst(Term(iter))

----------------------------------------------------------------------------
(* Evaluation.  Term::evaluate, Op::evaluate_binary, Op::evaluate_unary    *)
(* and Value::call are not part of src/; they are modelled from section    *)
(* 4.3 of the specification, for the integers, booleans and lists used     *)
(* here.                                                                   *)

Boolean(b) == [t |-> "Boolean", v |-> b]

ListValue(vs) == [t |-> "List", v |-> vs]

EvalOk(v) == [ok |-> TRUE, val |-> v]

EvalErr(kind) == [ok |-> FALSE, err |-> [kind |-> kind]]

\* Integer division as i64 division: truncated toward zero.
TruncDiv(a, b) ==
    LET abs(x) == IF x < 0 THEN -x ELSE x
        q == abs(a) \div abs(b)
    IN  IF (a < 0) # (b < 0) THEN -q ELSE q

evaluate_binary(op, l, r) ==
    IF l.t = "Integer" /\ r.t = "Integer"
    THEN CASE op = "Add" -> EvalOk(Integer(l.v + r.v))
           [] op = "Sub" -> EvalOk(Integer(l.v - r.v))
           [] op = "Mul" -> EvalOk(Integer(l.v * r.v))
           [] op = "Div" -> IF r.v = 0
                            THEN EvalErr("DivisionByZero")
                            ELSE EvalOk(Integer(TruncDiv(l.v, r.v)))
           [] op = "Eq" -> EvalOk(Boolean(l.v = r.v))
           [] OTHER -> EvalErr("TypeError")
    ELSE IF l.t = "Boolean" /\ r.t = "Boolean"
    THEN CASE op = "And" -> EvalOk(Boolean(l.v /\ r.v))
           [] op = "Or" -> EvalOk(Boolean(l.v \/ r.v))
           [] op = "Eq" -> EvalOk(Boolean(l.v = r.v))
           [] OTHER -> EvalErr("TypeError")
    ELSE EvalErr("TypeError")

evaluate_unary(op, x) ==
    CASE op = "Not" /\ x.t = "Boolean" -> EvalOk(Boolean(~x.v))
      [] op = "Sub" /\ x.t = "Integer" -> EvalOk(Integer(-x.v))
      [] op = "Add" /\ x.t = "Integer" -> EvalOk(x)
      [] OTHER -> EvalErr("TypeError")

\* Term::evaluate: a constant is its value, a variable is looked up.
term_evaluate(term, context) ==
    IF term.kind = "constant"
    THEN EvalOk(term.value)
    ELSE IF term.name \in DOMAIN context
         THEN EvalOk(context[term.name])
         ELSE EvalErr("UndefinedVariable")

\* Value::call: positional access into a list; no other method is modelled.
call(v, name, args) ==
    IF v.t = "List" /\ args = <<>>
          /\ \E i \in 1..Len(v.v) : name = IntToString(i - 1)
    THEN EvalOk(v.v[CHOOSE i \in 1..Len(v.v) : name = IntToString(i - 1)])
    ELSE EvalErr("UnknownMethod")

RECURSIVE Evaluate(_, _)

\* The loop of evaluate over the terms of a list (and, through collect,
\* over the arguments of a call): the first error ends it.
RECURSIVE EvaluateAll(_, _, _)

EvaluateNext(es, context, acc, r) ==
    IF r.ok THEN EvaluateAll(Tail(es), context, Append(acc, r.val)) ELSE r

EvaluateAll(es, context, acc) ==
    IF es = <<>>
    THEN EvalOk(acc)
    ELSE EvaluateNext(es, context, acc, Evaluate(Head(es), context))

EvaluateBinary3(op, l, r) == IF r.ok THEN evaluate_binary(op, l.val, r.val) ELSE r

EvaluateBinary2(e, context, l) ==
    IF l.ok THEN EvaluateBinary3(e.op, l, Evaluate(e.right, context)) ELSE l

EvaluateUnary2(op, x) == IF x.ok THEN evaluate_unary(op, x.val) ELSE x

EvaluateList2(l) == IF l.ok THEN EvalOk(ListValue(l.val)) ELSE l

EvaluateFunction3(v, name, as) == IF as.ok THEN call(v.val, name, as.val) ELSE as

EvaluateFunction2(e, context, v) ==
    IF v.ok
    THEN EvaluateFunction3(v, e.name, EvaluateAll(e.args, context, <<>>))
    ELSE v

Evaluate(e, context) ==
    CASE e.node = "Term" -> term_evaluate(e.term, context)
      [] e.node = "Binary" -> EvaluateBinary2(e, context, Evaluate(e.left, context))
      [] e.node = "Unary" -> EvaluateUnary2(e.op, Evaluate(e.operand, context))
      [] e.node = "List" -> EvaluateList2(EvaluateAll(e.terms, context, <<>>))
      [] e.node = "Function" -> EvaluateFunction2(e, context, Evaluate(e.term, context))

----------------------------------------------------------------------------
(* Expression::evaluate one step at a time.  An evaluation is a stack of   *)
(* activations of evaluate, the innermost last; a step of the innermost    *)
(* activation either calls evaluate on the next child or returns.  The log *)
(* keeps what the evaluation has done, in order.                           *)

\* One activation: the node, its place in the tree (the indices of the
\* children on the way down from the root) and the values its children have
\* returned so far.
Frame(e, path) == [e |-> e, path |-> path, vals |-> <<>>]

\* What an activation does next: evaluate its i-th child e, or return r.
Enter(e, i) == [do |-> "evaluate", e |-> e, i |-> i]

Return(r) == [do |-> "return", r |-> r]

\* Expression::Term { term } => term.evaluate(context)
EvalTerm(f, context) == Return(term_evaluate(f.e.term, context))

\* EvalBinary with `&&` and `||` as the host language has them: the right
\* operand is left alone when the left one decides.
EvalBinaryShortCircuit(f) ==
    CASE Len(f.vals) = 0 -> Enter(f.e.left, 1)
      [] Len(f.vals) = 1 ->
           IF f.e.op = "And" /\ f.vals[1] = Boolean(FALSE)
           THEN Return(EvalOk(Boolean(FALSE)))
           ELSE IF f.e.op = "Or" /\ f.vals[1] = Boolean(TRUE)
                THEN Return(EvalOk(Boolean(TRUE)))
                ELSE Enter(f.e.right, 2)
      [] OTHER -> Return(evaluate_binary(f.e.op, f.vals[1], f.vals[2]))

\* Expression::Binary: left, then right, then the operator
EvalBinary(f) ==
    CASE Len(f.vals) = 0 -> Enter(f.e.left, 1)
      [] Len(f.vals) = 1 -> Enter(f.e.right, 2)
      [] OTHER -> Return(evaluate_binary(f.e.op, f.vals[1], f.vals[2]))

\* Expression::Unary: the operand, then the operator
EvalUnary(f) ==
    IF Len(f.vals) = 0
    THEN Enter(f.e.operand, 1)
    ELSE Return(evaluate_unary(f.e.op, f.vals[1]))

\* EvalList going through the terms from the last to the first.
EvalListReversed(f) ==
    IF Len(f.vals) < Len(f.e.terms)
    THEN Enter(f.e.terms[Len(f.e.terms) - Len(f.vals)], Len(f.e.terms) - Len(f.vals))
    ELSE Return(EvalOk(ListValue([i \in 1..Len(f.vals) |-> f.vals[Len(f.vals) + 1 - i]])))

\* Expression::List: for term in terms { list.push(term.evaluate(context)?) }
EvalList(f) ==
    IF Len(f.vals) < Len(f.e.terms)
    THEN Enter(f.e.terms[Len(f.vals) + 1], Len(f.vals) + 1)
    ELSE Return(EvalOk(ListValue(f.vals)))

\* EvalFunction that evaluates the arguments before the receiver.
EvalFunctionArgsFirst(f) ==
    IF Len(f.vals) < Len(f.e.args)
    THEN Enter(f.e.args[Len(f.vals) + 1], Len(f.vals) + 2)
    ELSE IF Len(f.vals) = Len(f.e.args)
         THEN Enter(f.e.term, 1)
         ELSE Return(call(f.vals[Len(f.vals)], f.e.name,
                          SubSeq(f.vals, 1, Len(f.vals) - 1)))

\* Expression::Function: term, then the arguments one by one (collect asks
\* the iterator for the next argument only while none has failed), then call
EvalFunction(f) ==
    IF Len(f.vals) = 0
    THEN Enter(f.e.term, 1)
    ELSE IF Len(f.vals) < 1 + Len(f.e.args)
         THEN Enter(f.e.args[Len(f.vals)], Len(f.vals) + 1)
         ELSE Return(call(f.vals[1], f.e.name, Tail(f.vals)))

EvalNode(f, context) ==
    CASE f.e.node = "Term" -> EvalTerm(f, context)
      [] f.e.node = "Binary" -> EvalBinary(f)
      [] f.e.node = "Unary" -> EvalUnary(f)
      [] f.e.node = "List" -> EvalList(f)
      [] f.e.node = "Function" -> EvalFunction(f)

Top(stack) == stack[Len(stack)]

Pop(stack) == SubSeq(stack, 1, Len(stack) - 1)

NoResult == [ok |-> FALSE, err |-> [kind |-> "None"]]

Null == [t |-> "Null"]

\* A variable term whose name the context does not hold.
IsUndefinedTerm(e, context) ==
    e.node = "Term" /\ e.term.kind = "variable" /\ e.term.name \notin DOMAIN context

\* Unwind with a list that puts Null in the place of a term that failed.
RECURSIVE UnwindListDefault(_, _)
UnwindListDefault(stack, r) ==
    IF stack = <<>>
    THEN [stack |-> <<>>, result |-> r]
    ELSE IF r.ok
         THEN [stack |-> [stack EXCEPT ![Len(stack)].vals = Append(@, r.val)],
               result |-> NoResult]
         ELSE IF stack[Len(stack)].e.node = "List"
              THEN [stack |-> [stack EXCEPT ![Len(stack)].vals = Append(@, Null)],
                    result |-> NoResult]
              ELSE UnwindListDefault(Pop(stack), r)

\* The result r comes back to the activations of `stack`: a value goes to
\* the innermost one, an error goes through every `?` to the caller.
RECURSIVE Unwind(_, _)
Unwind(stack, r) ==
    IF stack = <<>>
    THEN [stack |-> <<>>, result |-> r]
    ELSE IF r.ok
         THEN [stack |-> [stack EXCEPT ![Len(stack)].vals = Append(@, r.val)],
               result |-> NoResult]
         ELSE Unwind(Pop(stack), r)

\* expr.evaluate(context) is called.
EvalInit(e) ==
    [tree |-> e, stack |-> <<Frame(e, <<>>)>>, result |-> NoResult, log |-> <<>>]

\* EvalReturn that folds the tree: once the whole expression has a value,
\* the tree is replaced by that constant.
EvalReturnFold(m, f, r, u) ==
    [m EXCEPT !.stack = u.stack,
              !.result = u.result,
              !.tree = IF u.stack = <<>> /\ r.ok THEN constant(r.val) ELSE @,
              !.log = Append(@, [ev |-> "return", path |-> f.path,
                                 vals |-> f.vals, r |-> r])]

\* An activation that has decided to return r does so.
EvalReturn(m, f, r, u) ==
    [m EXCEPT !.stack = u.stack,
              !.result = u.result,
              !.log = Append(@, [ev |-> "return", path |-> f.path,
                                 vals |-> f.vals, r |-> r])]

\* An activation calls evaluate on its i-th child e.
EvalEnter(m, f, e, i) ==
    [m EXCEPT !.stack = Append(@, Frame(e, Append(f.path, i))),
              !.log = Append(@, [ev |-> "enter", path |-> Append(f.path, i)])]

EvalDo(m, f, d) ==
    IF d.do = "evaluate"
    THEN EvalEnter(m, f, d.e, d.i)
    ELSE EvalReturn(m, f, d.r, Unwind(Pop(m.stack), d.r))

\* One step of the evaluation m against context.
EvalStep(m, context) == EvalDo(m, Top(m.stack), EvalNode(Top(m.stack), context))

----------------------------------------------------------------------------
(* The inputs.  A scenario fixes the tokens the tokenizer has already      *)
(* handed over (prefix), the vocabulary the following tokens are drawn     *)
(* from, and how many of them follow at most.                              *)

TBool(b) == [kind |-> "Value", value |-> Boolean(b)]

Scenarios ==
    << \* arithmetic chains
       [prefix |-> <<>>, len |-> MaxLen,
        vocab |-> {TValue(1), TValue(2), TSym("Plus"), TSym("Minus"),
                   TSym("Star")}],
       \* parenthesised groups
       [prefix |-> <<>>, len |-> MaxLen,
        vocab |-> {TValue(2), TSym("Minus"), TSym("Slash"),
                   TSym("RoundBracketStart"), TSym("RoundBracketEnd")}],
       \* unterminated groups
       [prefix |-> <<>>, len |-> MaxLen - 1,
        vocab |-> {TValue(1), TSym("Minus"), TSym("Dot"), TSym("BlockEnd"),
                   TSym("RoundBracketStart"), TSym("RoundBracketEnd")}],
       \* list literals
       [prefix |-> <<TSym("SquareBracketStart")>>, len |-> MaxLen - 2,
        vocab |-> {TValue(1), TValue(2), TVariable("x"), TSym("Comma"),
                   TSym("SquareBracketEnd"), TSym("SquareBracketStart"),
                   TSym("Minus"), TSym("Dot"), TSym("BlockEnd")}],
       \* accessors
       [prefix |-> <<TVariable("x")>>, len |-> MaxLen - 1,
        vocab |-> {TVariable("f"), TVariable("g"), TValue(0), TSym("Dot"),
                   TSym("Plus")}],
       \* calls with arguments
       [prefix |-> <<TVariable("x"), TSym("Dot"), TVariable("f"),
                     TSym("RoundBracketStart")>>, len |-> MaxLen - 1,
        vocab |-> {TValue(1), TVariable("g"), TSym("Dot"), TSym("Comma"),
                   TSym("RoundBracketStart"), TSym("RoundBracketEnd")}],
       \* unary operators and booleans
       [prefix |-> <<>>, len |-> MaxLen - 1,
        vocab |-> {TBool(FALSE), TBool(TRUE), TSym("Not"), TSym("Minus"),
                   TSym("Eq"), TSym("And")}],
       \* a call with more tokens after it
       [prefix |-> <<TVariable("x"), TSym("Dot"), TVariable("f"),
                     TSym("RoundBracketStart"), TValue(1),
                     TSym("RoundBracketEnd")>>, len |-> MaxLen - 4,
        vocab |-> {TValue(2), TVariable("g"), TSym("Plus"), TSym("Dot"),
                   TSym("BlockEnd")}] >>

\* The context evaluations run against.
Context == [x |-> Integer(3)]

None == [ok |-> FALSE, err |-> [kind |-> "None"]]

NoLoop == [kind |-> "none", s |-> [status |-> "none", iter |-> <<>>]]

\* No url has been received and no query has been started.
HttpIdle ==
    /\ url = <<>>
    /\ decoded = None
    /\ parsed = None
    /\ outcome = None

ModelIdle ==
    /\ query = None
    /\ calls = <<>>

Init ==
    /\ scen \in 1..Len(Scenarios)
    /\ tokens = Scenarios[scen].prefix
    /\ phase = "build"
    /\ result = None
    /\ value = None
    /\ loop = NoLoop
    /\ ctx = Context
    /\ evals = <<>>
    /\ HttpIdle
    /\ ModelIdle

\* The tokenizer hands over one more token.
Push(t) ==
    /\ phase = "build"
    /\ Len(tokens) < Len(Scenarios[scen].prefix) + Scenarios[scen].len
    /\ tokens' = Append(tokens, t)
    /\ UNCHANGED <<scen, phase, result, value, loop, ctx, evals, httpVars, modelVars>>

\* Expression::parse(&mut tokens.into_iter().peekable())
DoParse ==
    /\ phase = "build"
    /\ result' = Parse(WithContext(tokens))
    /\ phase' = "parsed"
    /\ UNCHANGED <<scen, tokens, value, loop, ctx, evals, httpVars, modelVars>>

\* expr.evaluate(context)
DoEvaluate ==
    /\ phase = "parsed"
    /\ result.ok
    /\ value' = Evaluate(result.expr, ctx)
    /\ phase' = "evaluated"
    /\ UNCHANGED <<scen, tokens, result, loop, ctx, evals, httpVars, modelVars>>

Next ==
    \/ \E t \in Scenarios[scen].vocab : Push(t)
    \/ DoParse
    \/ DoEvaluate

Spec == Init /\ [][Next]_vars

----------------------------------------------------------------------------
(* The loops of the parser taken one iteration at a time: a loop is        *)
(* entered with `tokens` left in the iterator.                             *)

LoopKinds == {"bracket", "list", "args", "function"}

LoopInit(kind, it) ==
    CASE kind = "bracket" -> BracketInit(it)
      [] kind = "list" -> ListInit(it)
      [] kind = "args" -> ArgsInit(it)
      [] kind = "function" -> FunctionInit(variable("x"), it)

LoopStep(kind, s) ==
    CASE kind = "bracket" -> BracketStep(s)
      [] kind = "list" -> ListStep(s)
      [] kind = "args" -> ArgsStep(s)
      [] kind = "function" -> FunctionStep(s)

EnterLoop(kind) ==
    /\ phase = "build"
    /\ Len(tokens) <= Len(Scenarios[scen].prefix) + LoopLen
    /\ loop' = [kind |-> kind, s |-> LoopInit(kind, WithContext(tokens))]
    /\ phase' = "loop"
    /\ UNCHANGED <<scen, tokens, result, value, ctx, evals, httpVars, modelVars>>

\* One iteration of the loop.
Iterate ==
    /\ phase = "loop"
    /\ loop.s.status = "run"
    /\ loop' = [loop EXCEPT !.s = LoopStep(loop.kind, loop.s)]
    /\ UNCHANGED <<scen, tokens, phase, result, value, ctx, evals, httpVars, modelVars>>

NextLoops ==
    \/ \E t \in Scenarios[scen].vocab : Push(t)
    \/ DoParse
    \/ \E kind \in LoopKinds : EnterLoop(kind)
    \/ Iterate

SpecLoops == Init /\ [][NextLoops]_vars

----------------------------------------------------------------------------
(* Evaluations taken one step at a time, NTasks of them at once against    *)
(* the one context their callers share.                                    *)

NTasks == 2

Tasks == 1..NTasks

SeqsUpTo(S, n) == UNION {[1..k -> S] : k \in 0..n}

\* The terms the trees are built from: x is set in the context, u is not.
EvalLeaves ==
    {constant(Boolean(FALSE)), constant(Integer(1)), variable("x"), variable("u")}

EvalOperands ==
    EvalLeaves \cup
    {Binary(constant(Boolean(FALSE)), "And", variable("u")),
     Binary(constant(Integer(1)), "Add", variable("x")),
     Unary("Sub", variable("x")),
     Unary("Not", constant(Integer(1))),
     List(<<constant(Integer(1)), variable("x")>>),
     List(<<variable("u")>>),
     FunctionNode(List(<<constant(Integer(1)), variable("x")>>), "1", <<>>)}

\* The receivers and the arguments of the calls.
EvalReceivers ==
    {variable("x"), variable("u"), Unary("Not", constant(Integer(1))),
     List(<<constant(Integer(1)), variable("x")>>)}

EvalArguments == {constant(Integer(1)), variable("u")}

Trees ==
    EvalOperands
    \cup {Binary(l, op, r) : l \in EvalOperands, op \in {"Add", "And"}, r \in EvalOperands}
    \cup {Unary(op, e) : op \in {"Not", "Sub"}, e \in EvalOperands}
    \cup {List(ts) : ts \in SeqsUpTo(EvalLeaves \ {constant(Boolean(FALSE))}, MaxTerms)}
    \cup {FunctionNode(e, n, as) : e \in EvalReceivers, n \in {"0", "f"},
                                  as \in SeqsUpTo(EvalArguments, MaxTerms - 1)}

\* The trees the other tasks evaluate.
OtherTrees ==
    {Binary(variable("x"), "Add", variable("u")),
     List(<<variable("u"), variable("x")>>)}

InitEval ==
    /\ scen = 1
    /\ tokens = <<>>
    /\ phase = "evaluate"
    /\ result = None
    /\ value = None
    /\ loop = NoLoop
    /\ ctx = Context
    /\ \E e \in Trees : \E o \in [Tasks \ {1} -> OtherTrees] :
          evals = [t \in Tasks |-> EvalInit(IF t = 1 THEN e ELSE o[t])]
    /\ HttpIdle
    /\ ModelIdle

\* The context after a lookup of the innermost activation of m that keeps
\* what it found: a name the context does not hold is entered with Null.
Cached(m, context) ==
    IF IsUndefinedTerm(Top(m.stack).e, context)
    THEN [n \in DOMAIN context \cup {Top(m.stack).e.term.name} |->
             IF n \in DOMAIN context THEN context[n] ELSE Null]
    ELSE context

\* Step with a context that caches lookups.
StepCaching(t) ==
    /\ phase = "evaluate"
    /\ evals[t].stack # <<>>
    /\ evals' = [evals EXCEPT ![t] = EvalStep(@, ctx)]
    /\ ctx' = Cached(evals[t], ctx)
    /\ UNCHANGED <<scen, tokens, phase, result, value, loop, httpVars, modelVars>>

\* Task t takes the next step of its evaluation; the context is borrowed
\* for reading.
Step(t) ==
    /\ phase = "evaluate"
    /\ evals[t].stack # <<>>
    /\ evals' = [evals EXCEPT ![t] = EvalStep(@, ctx)]
    /\ UNCHANGED <<scen, tokens, phase, result, value, loop, ctx, httpVars, modelVars>>

NextEval == \E t \in Tasks : Step(t)

SpecEval == InitEval /\ [][NextEval]_vars

\* The evaluation m run to its end with no other evaluation beside it.
RECURSIVE Run(_, _)
Run(m, context) == IF m.stack = <<>> THEN m ELSE Run(EvalStep(m, context), context)

----------------------------------------------------------------------------
(* The http functions (src/rum/src/http/url.rs, path.rs) and the SecureId  *)
(* middleware (src/rum/src/controller/middleware/secure_id.rs).  A string  *)
(* is the sequence of its characters, each a string of length one.         *)

\* The longest run of characters added to a url scenario's prefix.
MaxUrl == 5

\* The characters U+0020 to U+007E in order, without the grave accent
\* (U+0060).
Printable ==
    <<" ", "!", "\"", "#", "$", "%", "&", "'", "(", ")", "*", "+",
      ",", "-", ".", "/", "0", "1", "2", "3", "4", "5", "6", "7",
      "8", "9", ":", ";", "<", "=", ">", "?", "@", "A", "B", "C",
      "D", "E", "F", "G", "H", "I", "J", "K", "L", "M", "N", "O",
      "P", "Q", "R", "S", "T", "U", "V", "W", "X", "Y", "Z", "[",
      "\\", "]", "^", "_", "a", "b", "c", "d", "e", "f", "g",
      "h", "i", "j", "k", "l", "m", "n", "o", "p", "q", "r", "s",
      "t", "u", "v", "w", "x", "y", "z", "{", "|", "}", "~">>

\* byte as char
Chr(byte) ==
    IF byte \in 32..95 THEN Printable[byte - 31]
    ELSE IF byte \in 97..126 THEN Printable[byte - 32]
    ELSE "\\x" \o ToString(byte)

HexLower ==
    <<"0", "1", "2", "3", "4", "5", "6", "7", "8", "9", "a", "b", "c", "d", "e", "f">>

HexUpper ==
    <<"0", "1", "2", "3", "4", "5", "6", "7", "8", "9", "A", "B", "C", "D", "E", "F">>

\* char::is_ascii_hexdigit
IsAsciiHexdigit(c) == \E i \in 1..16 : HexLower[i] = c \/ HexUpper[i] = c

ToDigit(c) == (CHOOSE i \in 1..16 : HexLower[i] = c \/ HexUpper[i] = c) - 1

RECURSIVE Radix(_, _)
Radix(num, acc) ==
    IF num = <<>> THEN acc ELSE Radix(Tail(num), acc * 16 + ToDigit(Head(num)))

\* u8::from_str_radix(&num, 16) on a string of hexadecimal digits: the empty
\* string and a number that does not fit eight bits are errors.
FromStrRadix(num) ==
    IF num = <<>> THEN [ok |-> FALSE, err |-> [kind |-> "Empty"]]
    ELSE IF Radix(num, 0) > 255 THEN [ok |-> FALSE, err |-> [kind |-> "PosOverflow"]]
    ELSE [ok |-> TRUE, byte |-> Radix(num, 0)]

\* The inner loop of urldecode: while the peeked character is a hexadecimal
\* digit it is taken into num.
RECURSIVE TakeHex(_, _)
TakeHex(iter, num) ==
    IF iter # <<>> /\ IsAsciiHexdigit(Head(iter))
    THEN TakeHex(Tail(iter), Append(num, Head(iter)))
    ELSE [num |-> num, iter |-> iter]

\* if let Ok(byte) = u8::from_str_radix(&num, 16) { result.push(byte as char) }
PushByte(res, num) ==
    IF FromStrRadix(num).ok THEN Append(res, Chr(FromStrRadix(num).byte)) ELSE res

RECURSIVE UrldecodeLoop(_, _)
RECURSIVE UrldecodeEscape(_, _)
UrldecodeEscape(h, res) == UrldecodeLoop(h.iter, PushByte(res, h.num))

UrldecodeLoop(iter, res) ==
    IF iter = <<>> THEN res
    ELSE IF Head(iter) = "%" THEN UrldecodeEscape(TakeHex(Tail(iter), <<>>), res)
    ELSE UrldecodeLoop(Tail(iter), Append(res, Head(iter)))

urldecode(s) == UrldecodeLoop(s, <<>>)

\* str::split on a one-character pattern.
RECURSIVE SplitLoop(_, _, _, _)
SplitLoop(s, sep, cur, parts) ==
    IF s = <<>> THEN Append(parts, cur)
    ELSE IF Head(s) = sep THEN SplitLoop(Tail(s), sep, <<>>, Append(parts, cur))
    ELSE SplitLoop(Tail(s), sep, Append(cur, Head(s)), parts)

Split(s, sep) == SplitLoop(s, sep, <<>>, <<>>)

\* HashMap::insert; a map is the set of its (key, value) pairs.
Insert(map, key, val) == {e \in map : e[1] # key} \cup {<<key, val>>}

\* query.insert(key, value) unless key_value.len() != 2
QueryInsert(map, key_value) ==
    IF Len(key_value) # 2 THEN map
    ELSE Insert(map, key_value[1], key_value[Len(key_value)])

RECURSIVE QueryLoop(_, _)
QueryLoop(query_parts, map) ==
    IF query_parts = <<>> THEN map
    ELSE QueryLoop(Tail(query_parts), QueryInsert(map, Split(Head(query_parts), "=")))

PathOf(base, map) == [base |-> base, query |-> map]

PathFromParts(decodedPath, parts) ==
    IF Len(parts) = 1 THEN [ok |-> TRUE, path |-> PathOf(decodedPath, {})]
    ELSE IF Len(parts) = 2
    THEN [ok |-> TRUE, path |-> PathOf(parts[1], QueryLoop(Split(parts[2], "&"), {}))]
    ELSE [ok |-> FALSE,
          err |-> [kind |-> "MalformedRequest", msg |-> "path has malformed query"]]

\* Path::parse
PathParse(p) == PathFromParts(urldecode(p), Split(urldecode(p), "?"))

\* char::is_numeric on the characters of the urls taken here, all of them
\* ascii.
IsNumeric(c) == \E i \in 1..10 : HexLower[i] = c

AllNumeric(id) == \A i \in 1..Len(id) : IsNumeric(id[i])

\* i64::to_string of a number that is not negative.
RECURSIVE NumberToString(_)
NumberToString(n) ==
    IF n < 10 THEN <<HexLower[n + 1]>>
    ELSE Append(NumberToString(n \div 10), HexLower[(n % 10) + 1])

StartsWith(s, from) == Len(from) <= Len(s) /\ SubSeq(s, 1, Len(from)) = from

\* str::replace: the matches are taken from left to right and do not
\* overlap; the empty pattern matches before every character and at the end.
RECURSIVE ReplaceLoop(_, _, _, _)
ReplaceLoop(s, from, to, out) ==
    IF s = <<>> THEN (IF from = <<>> THEN out \o to ELSE out)
    ELSE IF from = <<>> THEN ReplaceLoop(Tail(s), from, to, Append(out \o to, Head(s)))
    ELSE IF StartsWith(s, from)
    THEN ReplaceLoop(SubSeq(s, Len(from) + 1, Len(s)), from, to, out \o to)
    ELSE ReplaceLoop(Tail(s), from, to, Append(out, Head(s)))

Replace(s, from, to) == ReplaceLoop(s, from, to, <<>>)

\* The values of request.parameter::<String>("id").
NoParameter == [ok |-> TRUE, some |-> FALSE]

Parameter(id) == [ok |-> TRUE, some |-> TRUE, id |-> id]

ParameterError == [ok |-> FALSE]

Stop == [kind |-> "Stop", response |-> "not_found"]

Forward(request) == [kind |-> "Forward", request |-> request]

\* head.replace_path(Path::from_parts(&base, path.query()))
ReplacePath(request, base) ==
    [request EXCEPT !.path = PathOf(base, request.path.query)]

\* SecureId::handle_request without the block on numeric ids.
HandleRequestNoBlock(request, decrypted) ==
    IF request.id.ok /\ request.id.some
    THEN IF decrypted.ok
         THEN Forward(ReplacePath(request,
                  Replace(request.path.base, request.id.id,
                          NumberToString(decrypted.number))))
         ELSE Stop
    ELSE Forward(request)

\* SecureId::handle_request; decrypted is what decrypt_number(&id) returns.
HandleRequest(request, decrypted) ==
    IF request.id.ok /\ request.id.some
    THEN IF AllNumeric(request.id.id) THEN Stop
         ELSE IF decrypted.ok
         THEN Forward(ReplacePath(request,
                  Replace(request.path.base, request.id.id,
                          NumberToString(decrypted.number))))
         ELSE Stop
    ELSE Forward(request)

\* The urls: each scenario's prefix, then up to len characters of its
\* vocabulary, then its suffix.
UrlScenarios ==
    <<\* escapes followed by hexadecimal digits and by other characters
      [prefix |-> <<>>, len |-> MaxUrl, vocab |-> {"%", "2", "0", "a", "z"},
       suffix |-> <<>>],
      \* the separators of the query
      [prefix |-> <<"/">>, len |-> MaxUrl, vocab |-> {"?", "&", "=", "k", "v"},
       suffix |-> <<>>],
      \* repeated keys
      [prefix |-> <<"/", "?", "k", "=", "v", "&">>, len |-> MaxUrl - 1,
       vocab |-> {"k", "=", "w", "&"}, suffix |-> <<>>],
      \* escaped separators
      [prefix |-> <<"/", "a">>, len |-> MaxUrl, vocab |-> {"%", "3", "F", "D", "?"},
       suffix |-> <<>>],
      \* path segments that are ids
      [prefix |-> <<"/">>, len |-> MaxUrl - 1, vocab |-> {"1", "a", "/"},
       suffix |-> <<"?", "k", "=", "v">>]>>

Urls ==
    UNION {{UrlScenarios[i].prefix \o w \o UrlScenarios[i].suffix :
               w \in SeqsUpTo(UrlScenarios[i].vocab, UrlScenarios[i].len)} :
           i \in 1..Len(UrlScenarios)}

\* The values the router can have bound to id for a parsed path: a segment
\* of the base.
Parameters(p) ==
    IF p.ok
    THEN {NoParameter, ParameterError}
         \cup {Parameter(Split(p.path.base, "/")[i]) :
                   i \in 1..Len(Split(p.path.base, "/"))}
    ELSE {}

\* What decrypt_number can return.
Decrypted ==
    {[ok |-> FALSE], [ok |-> TRUE, number |-> 7], [ok |-> TRUE, number |-> 42]}

InitHttp ==
    /\ scen = 1
    /\ tokens = <<>>
    /\ phase = "http"
    /\ result = None
    /\ value = None
    /\ loop = NoLoop
    /\ ctx = Context
    /\ evals = <<>>
    /\ url \in Urls
    /\ decoded = None
    /\ parsed = None
    /\ outcome = None
    /\ ModelIdle

\* urldecode(url)
DoUrldecode ==
    /\ phase = "http"
    /\ decoded = None
    /\ decoded' = [ok |-> TRUE, string |-> urldecode(url)]
    /\ UNCHANGED <<scen, tokens, phase, result, value, loop, ctx, evals,
                   url, parsed, outcome, modelVars>>

\* Path::parse(url)
DoPathParse ==
    /\ phase = "http"
    /\ parsed = None
    /\ parsed' = PathParse(url)
    /\ UNCHANGED <<scen, tokens, phase, result, value, loop, ctx, evals,
                   url, decoded, outcome, modelVars>>

\* The middleware is handed the request of the parsed path.
DoHandleRequest(id, decrypted) ==
    /\ phase = "http"
    /\ parsed.ok
    /\ outcome = None
    /\ outcome' = [ok |-> TRUE,
                   request |-> [path |-> parsed.path, id |-> id],
                   decrypted |-> decrypted,
                   outcome |-> HandleRequest([path |-> parsed.path, id |-> id],
                                             decrypted)]
    /\ UNCHANGED <<scen, tokens, phase, result, value, loop, ctx, evals,
                   url, decoded, parsed, modelVars>>

NextHttp ==
    \/ DoUrldecode
    \/ DoPathParse
    \/ \E id \in Parameters(parsed) : \E d \in Decrypted : DoHandleRequest(id, d)

SpecHttp == InitHttp /\ [][NextHttp]_vars

----------------------------------------------------------------------------
(* The query builder (src/rum/src/model/mod.rs).  A Select holds its joins, *)
(* its where clause, the values bound to its placeholders and its limit;    *)
(* a filter binds its value to the next placeholder and adds the condition  *)
(* on that placeholder to the where clause.                                 *)

\* The most calls made on one query.
MaxCalls == 3

NoLimit == [some |-> FALSE]

\* Query::select, Model::all
All(table_name) ==
    [table_name |-> table_name, joins |-> <<>>, where_clause |-> <<>>,
     placeholders |-> <<>>, limit |-> NoLimit]

\* Query::filter on a Select: the value is sent as the next placeholder.
QueryFilter(select, column, val) ==
    [select EXCEPT
        !.placeholders = Append(@, val),
        !.where_clause = Append(@, [column |-> column, op |-> "=",
                                    placeholder |-> Len(select.placeholders) + 1])]

\* Query::take_many
TakeMany(select, n) == [select EXCEPT !.limit = [some |-> TRUE, n |-> n]]

\* Query::take_one
TakeOne(select) == TakeMany(select, 1)

\* Query::join
Join(select, table_name) == [select EXCEPT !.joins = Append(@, table_name)]

\* where_clause.clear()
Clear(select) == [select EXCEPT !.where_clause = <<>>]

\* Query::find_by
FindBy(select, column, val) == TakeOne(QueryFilter(Clear(select), column, val))

RECURSIVE JoinsSql(_)
JoinsSql(joins) ==
    IF joins = <<>> THEN <<>> ELSE <<"INNER JOIN", Head(joins)>> \o JoinsSql(Tail(joins))

RECURSIVE FiltersSql(_, _)
FiltersSql(filters, first) ==
    IF filters = <<>> THEN <<>>
    ELSE <<(IF first THEN "WHERE" ELSE "AND"), Head(filters).column, Head(filters).op,
           "$" \o ToString(Head(filters).placeholder)>>
         \o FiltersSql(Tail(filters), FALSE)

LimitSql(limit) == IF limit.some THEN <<"LIMIT", ToString(limit.n)>> ELSE <<>>

\* ToSql::to_sql of a Select, word by word.
ToSql(select) ==
    <<"SELECT", (IF select.joins = <<>> THEN "*" ELSE select.table_name \o ".*"),
      "FROM", select.table_name>>
    \o JoinsSql(select.joins) \o FiltersSql(select.where_clause, TRUE)
    \o LimitSql(select.limit)

\* The columns, the values and the relations of the calls.
ModelColumns == {"users.id", "users.email"}

ModelValues == {5, 42}

ModelJoins == {"orders"}

InitModel ==
    /\ scen = 1
    /\ tokens = <<>>
    /\ phase = "model"
    /\ result = None
    /\ value = None
    /\ loop = NoLoop
    /\ ctx = Context
    /\ evals = <<>>
    /\ HttpIdle
    /\ query = All("users")
    /\ calls = <<>>

\* A call is made on the query and noted.
DoFilter(column, val) ==
    /\ phase = "model"
    /\ Len(calls) < MaxCalls
    /\ query' = QueryFilter(query, column, val)
    /\ calls' = Append(calls, [fn |-> "filter", column |-> column, val |-> val])
    /\ UNCHANGED <<scen, tokens, phase, result, value, loop, ctx, evals, httpVars>>

DoJoin(table_name) ==
    /\ phase = "model"
    /\ Len(calls) < MaxCalls
    /\ query' = Join(query, table_name)
    /\ calls' = Append(calls, [fn |-> "join", table |-> table_name])
    /\ UNCHANGED <<scen, tokens, phase, result, value, loop, ctx, evals, httpVars>>

DoTakeOne ==
    /\ phase = "model"
    /\ Len(calls) < MaxCalls
    /\ query' = TakeOne(query)
    /\ calls' = Append(calls, [fn |-> "take_one"])
    /\ UNCHANGED <<scen, tokens, phase, result, value, loop, ctx, evals, httpVars>>

DoFindBy(column, val) ==
    /\ phase = "model"
    /\ Len(calls) < MaxCalls
    /\ query' = FindBy(query, column, val)
    /\ calls' = Append(calls, [fn |-> "find_by", column |-> column, val |-> val])
    /\ UNCHANGED <<scen, tokens, phase, result, value, loop, ctx, evals, httpVars>>

NextModel ==
    \/ \E c \in ModelColumns : \E v \in ModelValues : DoFilter(c, v)
    \/ \E t \in ModelJoins : DoJoin(t)
    \/ DoTakeOne
    \/ \E c \in ModelColumns : \E v \in ModelValues : DoFindBy(c, v)

SpecModel == InitModel /\ [][NextModel]_vars

----------------------------------------------------------------------------
(* Reference definitions the properties are stated with.                   *)

IsTermToken(tok) == tok.kind \in {"Value", "Variable"}

IsOpToken(tok) == FromToken(tok) # "None"

Leaf(tok) == IF tok.kind = "Value" THEN constant(tok.value) ELSE variable(tok.name)

\* Arithmetic as it is standardly read: * and / bind tighter than + and -,
\* operators of equal precedence associate to the left, parentheses group.
StdFail == [ok |-> FALSE]

RECURSIVE StdSum(_)
RECURSIVE StdSumTail(_, _)
RECURSIVE StdProduct(_)
RECURSIVE StdProductTail(_, _)
RECURSIVE StdAtom(_)

StdAtom(t) ==
    IF t = <<>>
    THEN StdFail
    ELSE IF Head(t).kind = "Value"
         THEN [ok |-> TRUE, expr |-> constant(Head(t).value), rest |-> Tail(t)]
         ELSE IF Head(t).kind = "RoundBracketStart"
              THEN LET e == StdSum(Tail(t)) IN
                   IF e.ok /\ e.rest # <<>> /\ Head(e.rest).kind = "RoundBracketEnd"
                   THEN [e EXCEPT !.rest = Tail(@)]
                   ELSE StdFail
              ELSE StdFail

StdProductTail(acc, t) ==
    IF t # <<>> /\ Head(t).kind \in {"Star", "Slash"}
    THEN LET a == StdAtom(Tail(t)) IN
         IF a.ok
         THEN StdProductTail(Binary(acc, FromToken(Head(t)), a.expr), a.rest)
         ELSE StdFail
    ELSE [ok |-> TRUE, expr |-> acc, rest |-> t]

StdProduct(t) ==
    LET a == StdAtom(t) IN
    IF a.ok THEN StdProductTail(a.expr, a.rest) ELSE StdFail

StdSumTail(acc, t) ==
    IF t # <<>> /\ Head(t).kind \in {"Plus", "Minus"}
    THEN LET a == StdProduct(Tail(t)) IN
         IF a.ok
         THEN StdSumTail(Binary(acc, FromToken(Head(t)), a.expr), a.rest)
         ELSE StdFail
    ELSE [ok |-> TRUE, expr |-> acc, rest |-> t]

StdSum(t) ==
    LET a == StdProduct(t) IN
    IF a.ok THEN StdSumTail(a.expr, a.rest) ELSE StdFail

WellFormedArithmetic(t) == StdSum(t).ok /\ StdSum(t).rest = <<>>

\* An unparenthesised chain t1 OP t2 OP ... OP tn, n >= 2.
IsChain(t) ==
    /\ Len(t) >= 3
    /\ Len(t) % 2 = 1
    /\ \A i \in 1..Len(t) : IF i % 2 = 1 THEN IsTermToken(t[i]) ELSE IsOpToken(t[i])

RECURSIVE LeftNested(_)
LeftNested(t) ==
    IF Len(t) = 1
    THEN Leaf(t[1])
    ELSE Binary(LeftNested(SubSeq(t, 1, Len(t) - 2)),
                FromToken(t[Len(t) - 1]), Leaf(t[Len(t)]))

RECURSIVE Subtrees(_)
Subtrees(e) ==
    {e} \cup
    CASE e.node = "Binary" -> Subtrees(e.left) \cup Subtrees(e.right)
      [] e.node = "Unary" -> Subtrees(e.operand)
      [] e.node = "Function" ->
           Subtrees(e.term) \cup UNION {Subtrees(e.args[i]) : i \in 1..Len(e.args)}
      [] e.node = "List" -> UNION {Subtrees(e.terms[i]) : i \in 1..Len(e.terms)}
      [] OTHER -> {}

\* Round brackets opened and not closed within the first i tokens of t.
Depth(t, i) ==
    Cardinality({j \in 1..i : t[j].kind = "RoundBracketStart"})
       - Cardinality({j \in 1..i : t[j].kind = "RoundBracketEnd"})

Min(S) == CHOOSE x \in S : \A y \in S : x <= y

\* The positions of t holding a token of kind k.
Positions(t, k) == {i \in 1..Len(t) : t[i].kind = k}

\* The positions after the bracket opened at o where that bracket is closed
\* again; the least of them holds its matching closing bracket.
ClosesOf(t, o) == {m \in (o + 1)..Len(t) : Depth(t, m) = Depth(t, o - 1)}

\* A prefix after which the parser stands in term position: terms with
\* their operators, and unary operators.
RECURSIVE TermPosition(_)
TermPosition(t) ==
    IF t = <<>>
    THEN TRUE
    ELSE IF t[1].kind \in {"Not", "Minus", "Plus"}
         THEN TermPosition(Tail(t))
         ELSE /\ Len(t) >= 2
              /\ t[1].kind = "Value"
              /\ IsOpToken(t[2])
              /\ TermPosition(Tail(Tail(t)))

\* The first parenthesised group of `tokens`, standing in term position.
HasGroup ==
    /\ Positions(tokens, "RoundBracketStart") # {}
    /\ TermPosition(SubSeq(tokens, 1, Min(Positions(tokens, "RoundBracketStart")) - 1))

GroupOpen == Min(Positions(tokens, "RoundBracketStart"))

\* The BlockEnd tokens after the opening bracket of the group.
GroupBlockEnds == {b \in Positions(tokens, "BlockEnd") : b > GroupOpen}

\* The group is closed, and no BlockEnd stands before its closing bracket.
GroupClosed ==
    /\ ClosesOf(tokens, GroupOpen) # {}
    /\ \A b \in GroupBlockEnds : b > Min(ClosesOf(tokens, GroupOpen))

GroupClose == Min(ClosesOf(tokens, GroupOpen))

\* The expression e with every variable named n replaced by g.
RECURSIVE Subst(_, _, _)
Subst(e, n, g) ==
    CASE e.node = "Term" ->
           IF e.term.kind = "variable" /\ e.term.name = n THEN g ELSE e
      [] e.node = "Binary" ->
           Binary(Subst(e.left, n, g), e.op, Subst(e.right, n, g))
      [] e.node = "Unary" -> Unary(e.op, Subst(e.operand, n, g))
      [] e.node = "List" ->
           List([i \in 1..Len(e.terms) |-> Subst(e.terms[i], n, g)])
      [] e.node = "Function" ->
           FunctionNode(Subst(e.term, n, g), e.name,
                        [i \in 1..Len(e.args) |-> Subst(e.args[i], n, g)])

\* The names of a chain of Function nodes, the innermost first, and the
\* expression the chain starts from.
RECURSIVE ChainNames(_)
ChainNames(e) ==
    IF e.node = "Function" THEN Append(ChainNames(e.term), e.name) ELSE <<>>

RECURSIVE Receiver(_)
Receiver(e) == IF e.node = "Function" THEN Receiver(e.term) ELSE e

\* Arguments in their simplest form: single terms separated by commas.
IsSimpleArgs(t) ==
    /\ Len(t) % 2 = 1
    /\ \A i \in 1..Len(t) :
          IF i % 2 = 1 THEN IsTermToken(t[i]) ELSE t[i].kind = "Comma"

\* The accessors `.name`, `.N` and `.name(simple arguments)` that t consists
\* of: their names in order, or ok = FALSE when t is no such sequence.
RECURSIVE Accessors(_)
AccessorsAfter(name, rest) ==
    LET a == Accessors(rest) IN
    IF a.ok THEN [ok |-> TRUE, names |-> <<name>> \o a.names] ELSE a

Accessors(t) ==
    IF t = <<>>
    THEN [ok |-> TRUE, names |-> <<>>]
    ELSE IF Len(t) < 2 \/ t[1].kind # "Dot"
    THEN [ok |-> FALSE]
    ELSE IF t[2].kind = "Value"
    THEN AccessorsAfter(IntToString(t[2].value.v), SubSeq(t, 3, Len(t)))
    ELSE IF t[2].kind # "Variable"
    THEN [ok |-> FALSE]
    ELSE IF Len(t) >= 3 /\ t[3].kind = "RoundBracketStart"
    THEN IF /\ ClosesOf(t, 3) # {}
            /\ IsSimpleArgs(SubSeq(t, 4, Min(ClosesOf(t, 3)) - 1))
         THEN AccessorsAfter(t[2].name, SubSeq(t, Min(ClosesOf(t, 3)) + 1, Len(t)))
         ELSE [ok |-> FALSE]
    ELSE AccessorsAfter(t[2].name, SubSeq(t, 3, Len(t)))

\* t split at its commas of nesting depth zero.
RECURSIVE SplitTop(_)
SplitTop(t) ==
    LET cs == {i \in Positions(t, "Comma") : Depth(t, i) = 0} IN
    IF cs = {}
    THEN <<t>>
    ELSE <<SubSeq(t, 1, Min(cs) - 1)>> \o SplitTop(SubSeq(t, Min(cs) + 1, Len(t)))

\* `tokens` is `receiver . name (` followed by more tokens.
IsCall ==
    /\ Len(tokens) >= 4
    /\ IsTermToken(tokens[1])
    /\ tokens[2].kind = "Dot"
    /\ tokens[3].kind = "Variable"
    /\ tokens[4].kind = "RoundBracketStart"

\* The children of a node in the order of its fields.
Children(e) ==
    CASE e.node = "Binary" -> <<e.left, e.right>>
      [] e.node = "Unary" -> <<e.operand>>
      [] e.node = "List" -> e.terms
      [] e.node = "Function" -> <<e.term>> \o e.args
      [] OTHER -> <<>>

\* The node of e at a path, and the paths of e.
RECURSIVE NodeAt(_, _)
NodeAt(e, p) == IF p = <<>> THEN e ELSE NodeAt(Children(e)[Head(p)], Tail(p))

RECURSIVE Paths(_)
Paths(e) ==
    {<<>>} \cup UNION {{<<i>> \o q : q \in Paths(Children(e)[i])} :
                        i \in 1..Len(Children(e))}

\* Where the log of the evaluation m holds the call of evaluate on the node
\* at path p, and where it holds that node's own return.
EnterAt(m, p) == {i \in 1..Len(m.log) : m.log[i].ev = "enter" /\ m.log[i].path = p}

ReturnAt(m, p) == {i \in 1..Len(m.log) : m.log[i].ev = "return" /\ m.log[i].path = p}

\* evaluate has been called on the node at path p.
Evaluated(m, p) == p = <<>> \/ EnterAt(m, p) # {}

\* The node at path p has returned a value before position i of the log.
ReturnedBefore(m, p, i) == \E k \in ReturnAt(m, p) : k < i /\ m.log[k].r.ok

Done(m) == m.stack = <<>>

\* The paths of e in the order in which evaluation finishes with the nodes:
\* the children from the first to the last, then the node itself.
RECURSIVE PostOrder(_)
RECURSIVE PostOrderOf(_, _)
PostOrderOf(cs, i) ==
    IF i > Len(cs)
    THEN <<>>
    ELSE [k \in 1..Len(PostOrder(cs[i])) |-> <<i>> \o PostOrder(cs[i])[k]]
            \o PostOrderOf(cs, i + 1)

PostOrder(e) == PostOrderOf(Children(e), 1) \o << <<>> >>

HasUndefined(e, context) == \E p \in Paths(e) : IsUndefinedTerm(NodeAt(e, p), context)

\* The node fails although each of its children has a value.
FailsItself(e, context) ==
    /\ ~Evaluate(e, context).ok
    /\ \A i \in 1..Len(Children(e)) : Evaluate(Children(e)[i], context).ok

\* The positions of PostOrder(e) whose nodes fail themselves.
Failing(e, context) ==
    {i \in 1..Len(PostOrder(e)) : FailsItself(NodeAt(e, PostOrder(e)[i]), context)}

IsUnaryToken(tok) == tok.kind \in {"Not", "Minus", "Plus"}

\* The expression e with op put on its first term: the leftmost operand of
\* its binary operators.
RECURSIVE WrapLeftmost(_, _)
WrapLeftmost(e, op) ==
    IF e.node = "Binary"
    THEN Binary(WrapLeftmost(e.left, op), e.op, e.right)
    ELSE Unary(op, e)

\* The path p leads to the node at q or into it.
Within(p, q) == Len(p) >= Len(q) /\ SubSeq(p, 1, Len(q)) = q

\* The positions of the log that belong to the evaluation of the node at q.
EventsOf(m, q) == {i \in 1..Len(m.log) : Within(m.log[i].path, q)}

----------------------------------------------------------------------------
(* Properties                                                              *)

\* C1: for every well-formed sequence of numeric literals, + - * / and
\* balanced parentheses, parse succeeds and evaluate returns the value of the
\* expression read with standard precedence and left-to-right associativity.
C1_StandardArithmetic ==
    /\ (phase = "parsed" /\ WellFormedArithmetic(tokens)) => result.ok
    /\ (phase = "evaluated" /\ WellFormedArithmetic(tokens))
          => value = Evaluate(StdSum(tokens).expr, Context)

\* `tokens` is `a OP1 b OP2 c` with single terms a, b, c.
C2_IsPair ==
    /\ Len(tokens) = 5
    /\ IsChain(tokens)

\* C2: `a OP1 b OP2 c` with single terms a, b, c parses to
\* Binary(a, OP1, Binary(b, OP2, c)) when OP2 ranks strictly below OP1 (binds
\* tighter), and to Binary(Binary(a, OP1, b), OP2, c) otherwise.
C2_PairwiseGrouping ==
    (phase = "parsed" /\ C2_IsPair) =>
        LET a == Leaf(tokens[1])
            b == Leaf(tokens[3])
            c == Leaf(tokens[5])
            op1 == FromToken(tokens[2])
            op2 == FromToken(tokens[4])
        IN  result = Ok(IF Rank(op2) < Rank(op1)
                        THEN Binary(a, op1, Binary(b, op2, c))
                        ELSE Binary(Binary(a, op1, b), op2, c), <<>>)

C2_Witness ==
    /\ phase = "parsed"
    /\ C2_IsPair
    /\ Rank(FromToken(tokens[4])) < Rank(FromToken(tokens[2]))
    /\ result.ok
    /\ result.expr.right.node = "Binary"

\* C3: a chain whose operators all have the same precedence parses to the
\* left-nested tree, whatever its length; and in any chain an operator that
\* binds tighter than the one before it has exactly its own two operands
\* grouped under it.
C3_LeftToRightChains ==
    (phase = "parsed" /\ IsChain(tokens)) =>
        /\ (\A i, j \in 1..Len(tokens) :
               (i % 2 = 0 /\ j % 2 = 0) =>
                   Rank(FromToken(tokens[i])) = Rank(FromToken(tokens[j])))
             => result = Ok(LeftNested(tokens), <<>>)
        /\ \A i \in 4..Len(tokens) :
               (i % 2 = 0 /\ Rank(FromToken(tokens[i])) < Rank(FromToken(tokens[i - 2])))
                   => /\ result.ok
                      /\ Binary(Leaf(tokens[i - 1]), FromToken(tokens[i]), Leaf(tokens[i + 1]))
                            \in Subtrees(result.expr)

\* The bracket loop run on the tokens after the opening bracket of the
\* group, the parse of the tokens within the group, and the parse of
\* `tokens` with one variable in the place of the group.
C4_Scan ==
    BracketLoop(BracketInit(SubSeq(WithContext(tokens), GroupOpen + 1, Len(tokens))))

C4_Inner == Parse(SubSeq(WithContext(tokens), GroupOpen + 1, GroupClose - 1))

C4_Replaced ==
    Parse(SubSeq(WithContext(tokens), 1, GroupOpen - 1)
            \o <<[token |-> TVariable("group"), pos |-> GroupOpen]>>
            \o SubSeq(WithContext(tokens), GroupClose + 1, Len(tokens)))

\* C4: a parenthesised group in term position is scanned up to its matching
\* closing bracket and no further, its tokens are parsed as one expression,
\* and that expression stands where a single term would: the parse is the
\* parse of the sequence with a single variable in the place of the group,
\* with the group's expression put in for that variable.
C4_GroupIsOneOperand ==
    (phase = "parsed" /\ HasGroup /\ GroupClosed) =>
        /\ C4_Scan.status = "done"
        /\ C4_Scan.expr = SubSeq(WithContext(tokens), GroupOpen + 1, GroupClose - 1)
        /\ C4_Scan.iter = SubSeq(WithContext(tokens), GroupClose + 1, Len(tokens))
        /\ result = IF ~C4_Inner.ok
                    THEN C4_Inner
                    ELSE IF ~C4_Replaced.ok
                    THEN C4_Replaced
                    ELSE Ok(Subst(C4_Replaced.expr, "group", C4_Inner.expr),
                            C4_Replaced.rest)

C4_Witness ==
    /\ phase = "parsed"
    /\ HasGroup
    /\ GroupClosed
    /\ GroupOpen = 3
    /\ GroupClose = Len(tokens)
    /\ result.ok
    /\ result.expr.node = "Binary"
    /\ result.expr.op = "Div"
    /\ result.expr.right.node = "Binary"
    /\ result.expr.right.op = "Sub"
    /\ result.rest = <<>>

\* C5: a receiver followed by k >= 1 accessors parses to k nested Function
\* nodes, the last accessor at the root and the receiver innermost.
C5_AccessorChain ==
    (/\ phase = "parsed"
     /\ tokens # <<>>
     /\ IsTermToken(tokens[1])
     /\ Len(tokens) > 1
     /\ Accessors(Tail(tokens)).ok) =>
        /\ result.ok
        /\ ChainNames(result.expr) = Accessors(Tail(tokens)).names
        /\ Receiver(result.expr) = Leaf(tokens[1])

\* C6: an argument list ends at the closing bracket that matches its opening
\* bracket and is split at the commas of depth zero only: args has one
\* entry for each such part.
C6_ArgumentsByDepth ==
    (/\ phase = "parsed"
     /\ IsCall
     /\ ClosesOf(tokens, 4) # {}
     /\ Min(ClosesOf(tokens, 4)) = Len(tokens)
     /\ \A i \in 1..Len(SplitTop(SubSeq(tokens, 5, Len(tokens) - 1))) :
           WellFormedArithmetic(SplitTop(SubSeq(tokens, 5, Len(tokens) - 1))[i])) =>
        /\ result.ok
        /\ result.expr.node = "Function"
        /\ Len(result.expr.args) = Len(SplitTop(SubSeq(tokens, 5, Len(tokens) - 1)))

\* C7: a call whose argument list is not closed when the tokens end fails
\* with Eof.
C7_UnterminatedCall ==
    (/\ phase = "parsed"
     /\ IsCall
     /\ Len(tokens) > 4
     /\ IsSimpleArgs(SubSeq(tokens, 5, Len(tokens)))) =>
        /\ ~result.ok
        /\ result.err.kind = "Eof"

\* C8: a group in term position that meets a BlockEnd before its closing
\* bracket fails with ExpressionSyntax carrying that BlockEnd; a group the
\* tokens end in fails with Eof.
C8_UnterminatedGroup ==
    (phase = "parsed" /\ HasGroup /\ ~GroupClosed) =>
        result = IF GroupBlockEnds # {}
                 THEN ExpressionSyntax(WithContext(tokens)[Min(GroupBlockEnds)])
                 ELSE Eof("round bracket start")

C8_Witness ==
    /\ phase = "parsed"
    /\ HasGroup
    /\ ~GroupClosed
    /\ GroupOpen > 1
    /\ Len(tokens) > GroupOpen + 2
    /\ ~result.ok
    /\ result.err.kind = "ExpressionSyntax"
    /\ result.err.token.token.kind = "BlockEnd"
    /\ result.err.token.pos = Len(tokens) - 1

\* What parse returns: a tree and the tokens it left, or an error.
RECURSIVE IsExpression(_)
IsExpression(e) ==
    CASE e.node = "Term" -> e.term.kind \in {"constant", "variable"}
      [] e.node = "Binary" -> IsExpression(e.left) /\ IsExpression(e.right)
      [] e.node = "Unary" -> IsExpression(e.operand)
      [] e.node = "List" -> \A i \in 1..Len(e.terms) : IsExpression(e.terms[i])
      [] e.node = "Function" ->
           IsExpression(e.term) /\ \A i \in 1..Len(e.args) : IsExpression(e.args[i])
      [] OTHER -> FALSE

C9_Returns ==
    phase = "parsed" =>
        IF result.ok
        THEN /\ IsExpression(result.expr)
             /\ \E k \in 1..(Len(tokens) + 1) :
                   result.rest = SubSeq(WithContext(tokens), k, Len(tokens))
        ELSE result.err.kind \in {"Eof", "ExpressionSyntax"}

\* C9: every iteration of a loop of term and function either leaves the loop
\* or takes at least one token out of the iterator, and parse ends on every
\* token sequence with a tree and the tokens it left, or with an error.
C9_LoopsConsume ==
    /\ []C9_Returns
    /\ [][(phase = "loop" /\ phase' = "loop") =>
             \/ loop'.s.status # "run"
             \/ Len(loop'.s.iter) < Len(loop.s.iter)]_vars

C9_Witness ==
    /\ phase = "loop"
    /\ loop.kind = "bracket"
    /\ Len(tokens) >= 3
    /\ tokens[1].kind = "RoundBracketStart"
    /\ loop.s.status = "err"
    /\ loop.s.error.err.kind = "Eof"

\* A list literal at the start of `tokens`: the positions that end it and
\* the positions of tokens a list does not take.
C10_IsList == tokens # <<>> /\ tokens[1].kind = "SquareBracketStart"

C10_Ends == {i \in Positions(tokens, "SquareBracketEnd") : i > 1}

C10_Others ==
    {i \in 2..Len(tokens) :
        tokens[i].kind \notin {"Value", "Variable", "Comma", "SquareBracketEnd"}}

\* The tokens of the list that come before anything ends it.
C10_Body ==
    SubSeq(tokens, 2, Min(C10_Ends \cup C10_Others \cup {Len(tokens) + 1}) - 1)

C10_Elements ==
    LET ts == SelectSeq(C10_Body, IsTermToken) IN
    [i \in 1..Len(ts) |-> Leaf(ts[i])]

\* C10: a list literal parses to the List of its Value and Variable tokens
\* in order; another token before the closing bracket fails with
\* ExpressionSyntax carrying it, and the end of the tokens with Eof.
C10_ListLiteral ==
    (phase = "parsed" /\ C10_IsList) =>
        IF C10_Others # {} /\ \A e \in C10_Ends : Min(C10_Others) < e
        THEN result = ExpressionSyntax(WithContext(tokens)[Min(C10_Others)])
        ELSE IF C10_Ends = {}
        THEN result = Eof("term token")
        ELSE /\ Min(C10_Ends) = Len(tokens) => result = Ok(List(C10_Elements), <<>>)
             /\ result = ParseFirst(Function(List(C10_Elements),
                             SubSeq(WithContext(tokens), Min(C10_Ends) + 1, Len(tokens))))

C10_Witness ==
    /\ phase = "parsed"
    /\ C10_IsList
    /\ Positions(tokens, "Comma") # {}
    /\ result.ok
    /\ result.expr.node = "List"
    /\ Len(result.expr.terms) = 3
    /\ result.expr.terms[3] = variable("x")

\* The list nodes of the evaluation m that evaluate has been called on.
C11_Lists(m) ==
    {p \in Paths(m.tree) : NodeAt(m.tree, p).node = "List" /\ Evaluated(m, p)}

\* The terms of the list at path p that fail when evaluated.
C11_Failing(m, p) ==
    {i \in 1..Len(NodeAt(m.tree, p).terms) :
        ~Evaluate(NodeAt(m.tree, p).terms[i], ctx).ok}

C11_Values(m, p) ==
    [i \in 1..Len(NodeAt(m.tree, p).terms) |->
        Evaluate(NodeAt(m.tree, p).terms[i], ctx).val]

C11_OfList(m, p) ==
    /\ \A i \in 1..Len(NodeAt(m.tree, p).terms) :
          \A k \in EnterAt(m, Append(p, i)) :
             \A j \in 1..(i - 1) : ReturnedBefore(m, Append(p, j), k)
    /\ IF C11_Failing(m, p) = {}
       THEN /\ ReturnAt(m, p) # {}
            /\ \A k \in ReturnAt(m, p) :
                  m.log[k].r = EvalOk(ListValue(C11_Values(m, p)))
       ELSE /\ ReturnAt(m, p) = {}
            /\ \A j \in 1..Len(NodeAt(m.tree, p).terms) :
                  j > Min(C11_Failing(m, p)) => ~Evaluated(m, Append(p, j))
            /\ m.result = Evaluate(NodeAt(m.tree, p).terms[Min(C11_Failing(m, p))], ctx)

\* C11: evaluating a List evaluates its terms in index order; when all
\* succeed it returns the List of their values, in order; when one fails the
\* error of the first failing term is the result, no later term is
\* evaluated and no list is produced.
C11_ListEvaluation ==
    \A t \in Tasks :
        Done(evals[t]) => \A p \in C11_Lists(evals[t]) : C11_OfList(evals[t], p)

C11_Witness ==
    /\ Done(evals[1])
    /\ evals[1].tree = List(<<constant(Integer(1)), variable("u"), variable("x")>>)
    /\ evals[1].result = EvalErr("UndefinedVariable")
    /\ Evaluated(evals[1], <<2>>)
    /\ ~Evaluated(evals[1], <<3>>)

\* The Binary nodes of the evaluation m that evaluate has been called on.
C12_Binaries(m) ==
    {p \in Paths(m.tree) : NodeAt(m.tree, p).node = "Binary" /\ Evaluated(m, p)}

C12_OfBinary(m, p, left, right) ==
    /\ Evaluated(m, Append(p, 1))
    /\ \A i \in EventsOf(m, Append(p, 1)) : \A j \in EventsOf(m, Append(p, 2)) : i < j
    /\ \A k \in EnterAt(m, Append(p, 2)) : ReturnedBefore(m, Append(p, 1), k)
    /\ IF ~left.ok
       THEN /\ m.result = left
            /\ ~Evaluated(m, Append(p, 2))
            /\ ReturnAt(m, p) = {}
       ELSE IF ~right.ok
       THEN /\ Evaluated(m, Append(p, 2))
            /\ m.result = right
            /\ ReturnAt(m, p) = {}
       ELSE /\ ReturnAt(m, p) # {}
            /\ \A k \in ReturnAt(m, p) :
                  /\ m.log[k].vals = <<left.val, right.val>>
                  /\ m.log[k].r = evaluate_binary(NodeAt(m.tree, p).op, left.val, right.val)
                  /\ ReturnedBefore(m, Append(p, 1), k)
                  /\ ReturnedBefore(m, Append(p, 2), k)

\* C12: evaluating a Binary evaluates the left operand completely before
\* the right one and never short-circuits: a failing left operand is the
\* result and the right one is not evaluated; with a left value the right
\* operand is evaluated whatever the operator and that value are, and its
\* error is the result; the operator is applied to two values only.
C12_BinaryEvaluation ==
    \A t \in Tasks :
        Done(evals[t]) =>
            \A p \in C12_Binaries(evals[t]) :
                C12_OfBinary(evals[t], p,
                             Evaluate(NodeAt(evals[t].tree, p).left, ctx),
                             Evaluate(NodeAt(evals[t].tree, p).right, ctx))

C12_Witness ==
    /\ Done(evals[1])
    /\ evals[1].tree = Binary(constant(Boolean(FALSE)), "And", variable("u"))
    /\ Evaluated(evals[1], <<2>>)
    /\ evals[1].result = EvalErr("UndefinedVariable")

\* The first node of the tree of m to fail, in evaluation order.
C13_First(m) == PostOrder(m.tree)[Min(Failing(m.tree, ctx))]

\* C13: the evaluation of a tree that holds, anywhere, a variable the
\* context does not have returns an error and never a value, and the error
\* is UndefinedVariable when that variable is the first node to fail.
C13_UndefinedVariable ==
    \A t \in Tasks :
        (Done(evals[t]) /\ HasUndefined(evals[t].tree, ctx)) =>
            /\ ~evals[t].result.ok
            /\ evals[t].result.err.kind # "None"
            /\ Failing(evals[t].tree, ctx) # {}
            /\ IsUndefinedTerm(NodeAt(evals[t].tree, C13_First(evals[t])), ctx)
                  => /\ evals[t].result = EvalErr("UndefinedVariable")
                     /\ ReturnAt(evals[t], C13_First(evals[t])) # {}

C13_Witness ==
    /\ Done(evals[1])
    /\ evals[1].tree = FunctionNode(variable("x"), "f",
                                    <<constant(Integer(1)), variable("u")>>)
    /\ C13_First(evals[1]) = <<3>>
    /\ evals[1].result = EvalErr("UndefinedVariable")

\* The iterator stands after a complete term, at a token that is neither an
\* operator nor BlockEnd.
C14_Unexpected(r) ==
    /\ r.ok
    /\ r.rest # <<>>
    /\ ~IsOpToken(Head(r.rest).token)
    /\ Kind(Head(r.rest)) # "BlockEnd"

\* The iterator stands after a complete term, at an operator.
C14_AtOperator(r) == r.ok /\ r.rest # <<>> /\ IsOpToken(Head(r.rest).token)

\* C14: when parse has read a complete term and the next token is neither
\* an operator nor BlockEnd nor the end of the tokens, it fails with
\* ExpressionSyntax carrying that token, after the first term of an
\* expression as after the second term of a binary expression.
C14_TrailingToken ==
    phase = "parsed" =>
        LET first == Term(WithContext(tokens)) IN
        /\ C14_Unexpected(first) => result = ExpressionSyntax(Head(first.rest))
        /\ C14_AtOperator(first) =>
              LET second == Term(Tail(first.rest)) IN
              C14_Unexpected(second) => result = ExpressionSyntax(Head(second.rest))

C15_Op(tok) ==
    CASE tok.kind = "Not" -> "Not"
      [] tok.kind = "Minus" -> "Sub"
      [] tok.kind = "Plus" -> "Add"

\* The tokens after the unary operators `tokens` starts with.
RECURSIVE C15_Operand(_)
C15_Operand(t) ==
    IF t # <<>> /\ IsUnaryToken(t[1]) THEN C15_Operand(Tail(t)) ELSE t

\* The parse of the tokens after the first one, and of the tokens within a
\* group that starts at the second token and ends at the last.
C15_Rest == Parse(SubSeq(WithContext(tokens), 2, Len(tokens)))

C15_Group == Parse(SubSeq(WithContext(tokens), 3, Len(tokens) - 1))

C15_NotFalseEqTrueAndTrue ==
    <<TSym("Not"), TBool(FALSE), TSym("Eq"), TBool(TRUE), TSym("And"), TBool(TRUE)>>

\* C15: a Not, Minus or Plus token in term position yields Unary with op
\* Not, Sub or Add around the single term that follows (a term with its
\* accessors, a list, a group, or a unary term again) and takes no binary
\* operator after it: the parse is the parse of the tokens without the
\* unary token, with Unary put on its first term; `-a * b` is
\* Binary(Unary(Sub, a), Mul, b), and `!false == true && true` is true.
C15_UnaryTerm ==
    /\ (/\ phase = "parsed"
        /\ tokens # <<>>
        /\ IsUnaryToken(tokens[1])
        /\ (C15_Operand(tokens) # <<>>
              => C15_Operand(tokens)[1].kind # "RoundBracketStart")) =>
          result = IF C15_Rest.ok
                   THEN Ok(WrapLeftmost(C15_Rest.expr, C15_Op(tokens[1])), C15_Rest.rest)
                   ELSE C15_Rest
    /\ (/\ phase = "parsed"
        /\ Len(tokens) >= 3
        /\ IsUnaryToken(tokens[1])
        /\ tokens[2].kind = "RoundBracketStart"
        /\ ClosesOf(tokens, 2) # {}
        /\ Min(ClosesOf(tokens, 2)) = Len(tokens)
        /\ Positions(tokens, "BlockEnd") = {}) =>
          result = IF C15_Group.ok
                   THEN Ok(Unary(C15_Op(tokens[1]), C15_Group.expr), <<>>)
                   ELSE C15_Group
    /\ (/\ phase = "parsed"
        /\ Len(tokens) = 4
        /\ IsTermToken(tokens[1])
        /\ IsOpToken(tokens[2])
        /\ IsUnaryToken(tokens[3])
        /\ IsTermToken(tokens[4])) =>
          result = Ok(Binary(Leaf(tokens[1]), FromToken(tokens[2]),
                             Unary(C15_Op(tokens[3]), Leaf(tokens[4]))), <<>>)
    /\ (phase = "evaluated" /\ tokens = C15_NotFalseEqTrueAndTrue) =>
          value = EvalOk(Boolean(TRUE))

C15_Witness ==
    /\ phase = "parsed"
    /\ Len(tokens) = 4
    /\ tokens[1] = TSym("Minus")
    /\ tokens[3] = TSym("Star")
    /\ result.ok
    /\ result.expr.node = "Binary"
    /\ result.expr.op = "Mul"
    /\ result.expr.left.node = "Unary"
    /\ result.expr.left.op = "Sub"
    /\ result.expr.left.operand.node = "Term"

\* The decimal digits of a small number.
C16_Decimal(n) == <<"0", "1", "2", "3", "4", "5", "6", "7", "8", "9">>[n + 1]

\* A token that names an accessor: a variable, or an integer literal.
C16_IsName(tok) ==
    \/ tok.kind = "Variable"
    \/ tok.kind = "Value" /\ tok.value.t = "Integer"

C16_Name(tok) ==
    IF tok.kind = "Variable" THEN tok.name ELSE C16_Decimal(tok.value.v)

\* The positions where `tokens`, a term followed by `. name . name ...`,
\* stops being that.
C16_Bad ==
    {i \in 2..Len(tokens) :
        IF i % 2 = 0 THEN tokens[i].kind # "Dot" ELSE ~C16_IsName(tokens[i])}

\* The Function nodes of the accessors t[2..], around the term t[1].
RECURSIVE C16_Chain(_)
C16_Chain(t) ==
    IF Len(t) < 3
    THEN Leaf(t[1])
    ELSE FunctionNode(C16_Chain(SubSeq(t, 1, Len(t) - 2)), C16_Name(t[Len(t)]), <<>>)

\* C16: after a Dot, an integer literal N yields a Function named by the
\* decimal digits of N with no arguments around the expression so far, and
\* a Variable a Function named by it; any other token after the Dot fails
\* with ExpressionSyntax carrying that token, and the end of the tokens
\* right after the Dot fails with Eof.
C16_AfterDot ==
    (phase = "parsed" /\ Len(tokens) >= 2 /\ IsTermToken(tokens[1])) =>
        IF C16_Bad = {}
        THEN IF Len(tokens) % 2 = 0
             THEN result = Eof("accessor name")
             ELSE result = Ok(C16_Chain(tokens), <<>>)
        ELSE Min(C16_Bad) % 2 = 1 =>
                result = ExpressionSyntax(WithContext(tokens)[Min(C16_Bad)])

C16_Witness ==
    /\ phase = "parsed"
    /\ tokens = <<TVariable("x"), TSym("Dot"), TVariable("f"), TSym("Dot"), TValue(0)>>
    /\ result.ok
    /\ result.expr.node = "Function"
    /\ result.expr.name = "0"
    /\ result.expr.args = <<>>
    /\ result.expr.term.name = "f"

\* Every activation of every evaluation holds the node of the tree that
\* stands at its path.
C18_FramesOfTree ==
    \A t \in Tasks :
        \A i \in 1..Len(evals[t].stack) :
            evals[t].stack[i].e = NodeAt(evals[t].tree, evals[t].stack[i].path)

\* C18: no step of an evaluation, whether it ends in a value or in an error
\* at any node, changes the expression tree or the entries of the context.
C18_EvaluateFrame ==
    /\ []C18_FramesOfTree
    /\ [][/\ ctx' = ctx
          /\ \A t \in Tasks : evals'[t].tree = evals[t].tree]_vars

C18_Witness ==
    /\ Done(evals[1])
    /\ evals[1].tree = Binary(List(<<constant(Integer(1)), variable("x")>>), "Add",
                              Binary(constant(Boolean(FALSE)), "And", variable("u")))
    /\ evals[1].result = EvalErr("UndefinedVariable")
    /\ Done(evals[2])
    /\ ctx = [x |-> Integer(3)]

\* The evaluation m after n steps with no other evaluation beside it.
RECURSIVE C19_Alone(_, _)
C19_Alone(m, n) == IF n = 0 THEN m ELSE C19_Alone(EvalStep(m, Context), n - 1)

\* C19: under every interleaving of the steps of evaluations that share a
\* context, each evaluation is, after each of its steps, where it is after
\* as many steps when it runs alone, and ends with the result it ends with
\* alone.
C19_Concurrent ==
    \A t \in Tasks :
        /\ evals[t] = C19_Alone(EvalInit(evals[t].tree), Len(evals[t].log))
        /\ Done(evals[t]) =>
              evals[t].result = Run(EvalInit(evals[t].tree), Context).result

C19_Witness ==
    /\ ~Done(evals[1])
    /\ ~Done(evals[2])
    /\ evals[1].tree = List(<<variable("x"), variable("u")>>)
    /\ ReturnAt(evals[1], <<1>>) # {}
    /\ evals[2].tree = List(<<variable("u"), variable("x")>>)
    /\ EnterAt(evals[2], <<1>>) # {}

\* The Function nodes of the evaluation m that evaluate has been called on.
C20_Functions(m) ==
    {p \in Paths(m.tree) : NodeAt(m.tree, p).node = "Function" /\ Evaluated(m, p)}

\* The children of the call at path p that fail when evaluated: 1 is the
\* receiver, 1 + i the i-th argument.
C20_Failing(m, p) ==
    {i \in 1..Len(Children(NodeAt(m.tree, p))) :
        ~Evaluate(Children(NodeAt(m.tree, p))[i], ctx).ok}

C20_Values(m, p) ==
    [i \in 1..Len(Children(NodeAt(m.tree, p))) |->
        Evaluate(Children(NodeAt(m.tree, p))[i], ctx).val]

C20_OfFunction(m, p) ==
    /\ Evaluated(m, Append(p, 1))
    /\ \A i \in 1..Len(Children(NodeAt(m.tree, p))) :
          \A k \in EnterAt(m, Append(p, i)) :
             \A j \in 1..(i - 1) : ReturnedBefore(m, Append(p, j), k)
    /\ IF C20_Failing(m, p) = {}
       THEN /\ ReturnAt(m, p) # {}
            /\ \A k \in ReturnAt(m, p) :
                  /\ m.log[k].vals = C20_Values(m, p)
                  /\ m.log[k].r = call(C20_Values(m, p)[1], NodeAt(m.tree, p).name,
                                       Tail(C20_Values(m, p)))
                  /\ \A i \in 1..Len(Children(NodeAt(m.tree, p))) :
                        ReturnedBefore(m, Append(p, i), k)
       ELSE /\ ReturnAt(m, p) = {}
            /\ \A j \in 1..Len(Children(NodeAt(m.tree, p))) :
                  j > Min(C20_Failing(m, p)) => ~Evaluated(m, Append(p, j))
            /\ m.result = Evaluate(Children(NodeAt(m.tree, p))[Min(C20_Failing(m, p))], ctx)

\* C20: evaluating a Function evaluates the receiver, then the arguments in
\* index order, and then invokes the named operation on the receiver's value
\* with exactly the arguments' values; when the receiver or an argument
\* fails, nothing after it is evaluated, the operation is not invoked and
\* that error is the result.
C20_FunctionEvaluation ==
    \A t \in Tasks :
        Done(evals[t]) => \A p \in C20_Functions(evals[t]) : C20_OfFunction(evals[t], p)

C20_Witness ==
    /\ Done(evals[1])
    /\ evals[1].tree = FunctionNode(variable("x"), "f",
                                    <<variable("u"), constant(Integer(1))>>)
    /\ Evaluated(evals[1], <<2>>)
    /\ ~Evaluated(evals[1], <<3>>)
    /\ ReturnAt(evals[1], <<>>) = {}
    /\ evals[1].result = EvalErr("UndefinedVariable")

\* `tokens` is `receiver . name ( simple arguments )` followed by at least
\* one more token.
C21_CallThenMore ==
    /\ IsCall
    /\ ClosesOf(tokens, 4) # {}
    /\ Min(ClosesOf(tokens, 4)) < Len(tokens)
    /\ IsSimpleArgs(SubSeq(tokens, 5, Min(ClosesOf(tokens, 4)) - 1))

C21_XF1Plus2 ==
    <<TVariable("x"), TSym("Dot"), TVariable("f"), TSym("RoundBracketStart"),
      TValue(1), TSym("RoundBracketEnd"), TSym("Plus"), TValue(2)>>

\* C21: function takes tokens as parts of accessors only: when it returns
\* Ok after a call that is not followed by a Dot, the token after the
\* closing bracket of the call is the next token of the cursor, and
\* `x.f(1) + 2` parses as Binary(Function(x, f, [1]), Add, 2).
C21_FunctionLeavesRest ==
    /\ (/\ phase = "parsed"
        /\ C21_CallThenMore
        /\ tokens[Min(ClosesOf(tokens, 4)) + 1].kind # "Dot"
        /\ Function(Leaf(tokens[1]), Tail(WithContext(tokens))).ok) =>
          Function(Leaf(tokens[1]), Tail(WithContext(tokens))).rest
             = SubSeq(WithContext(tokens), Min(ClosesOf(tokens, 4)) + 1, Len(tokens))
    /\ (phase = "parsed" /\ tokens = C21_XF1Plus2) =>
          result = Ok(Binary(FunctionNode(variable("x"), "f", <<constant(Integer(1))>>),
                             "Add", constant(Integer(2))), <<>>)

\* C22: a parse that returns Ok on tokens ending with the BlockEnd sentinel
\* leaves the BlockEnd as the next token of the cursor.
C22_BlockEndLeft ==
    (/\ phase = "parsed"
     /\ tokens # <<>>
     /\ Positions(tokens, "BlockEnd") = {Len(tokens)}
     /\ result.ok) =>
        result.rest = <<WithContext(tokens)[Len(tokens)]>>

\* The parse of all tokens of a chain after its second operator.
C23_Remainder == Parse(SubSeq(WithContext(tokens), 5, Len(tokens)))

\* C23: for a chain t1 OP1 t2 OP2 t3 OP3 t4 ... with three or more operators
\* all tokens after OP2 are parsed on their own as one expression, which
\* becomes the right operand of OP2, and the tree has OP1 or OP2 at its
\* root, whatever the ranks of OP3 and of the operators after it.
C23_RemainderUnderSecondOp ==
    (phase = "parsed" /\ IsChain(tokens) /\ Len(tokens) >= 7) =>
        /\ C23_Remainder.ok
        /\ C23_Remainder.expr.node = "Binary"
        /\ result.ok
        /\ result.rest = <<>>
        /\ \/ result.expr = Binary(Leaf(tokens[1]), FromToken(tokens[2]),
                                   Binary(Leaf(tokens[3]), FromToken(tokens[4]),
                                          C23_Remainder.expr))
           \/ result.expr = Binary(Binary(Leaf(tokens[1]), FromToken(tokens[2]),
                                          Leaf(tokens[3])),
                                   FromToken(tokens[4]), C23_Remainder.expr)

C23_Witness ==
    /\ phase = "parsed"
    /\ tokens = <<TValue(1), TSym("Plus"), TValue(2), TSym("Star"), TValue(1),
                  TSym("Plus"), TValue(2)>>
    /\ result.ok
    /\ result.expr.op = "Add"
    /\ result.expr.right.op = "Mul"
    /\ result.expr.right.right
          = Binary(constant(Integer(1)), "Add", constant(Integer(2)))

\* The tokens of a list literal that is closed by the last token and holds
\* values, variables and commas only.
C24_IsPlainList ==
    /\ C10_IsList
    /\ C10_Ends = {Len(tokens)}
    /\ C10_Others = {}

C24_NotComma(tok) == tok.kind # "Comma"

\* C24: commas in a list literal are skipped wherever they stand and none is
\* required: the list has one element for each Value and Variable token
\* before the closing bracket, and it is the list that the same tokens
\* without any comma parse to.
C24_CommasSkipped ==
    (phase = "parsed" /\ C24_IsPlainList) =>
        /\ result.ok
        /\ result.expr.node = "List"
        /\ Len(result.expr.terms) = Cardinality({i \in 2..Len(tokens) : IsTermToken(tokens[i])})
        /\ result.expr = Parse(WithContext(SelectSeq(tokens, C24_NotComma))).expr
        /\ result.rest = <<>>

C24_Witness ==
    /\ phase = "parsed"
    /\ tokens = <<TSym("SquareBracketStart"), TSym("Comma"), TValue(1), TSym("Comma"),
                  TValue(2), TSym("SquareBracketEnd")>>
    /\ result = Ok(List(<<constant(Integer(1)), constant(Integer(2))>>), <<>>)

\* The positions of a call's argument list where an argument ends that has
\* no token.
C25_EmptyArguments ==
    {k \in 5..Len(tokens) :
        /\ tokens[k].kind \in {"Comma", "RoundBracketEnd"}
        /\ (k = 5 \/ tokens[k - 1].kind = "Comma")}

\* The arguments before the first empty one are single terms.
C25_SimpleBefore ==
    \/ Min(C25_EmptyArguments) = 5
    \/ IsSimpleArgs(SubSeq(tokens, 5, Min(C25_EmptyArguments) - 2))

\* C25: an empty group `()` and an empty argument list `.f()` produce no
\* tree: parse runs on an empty buffer and the whole parse fails with the
\* Eof of term on an exhausted cursor; so does an empty argument before or
\* after a comma, `.f(1,,2)` or `.f(1,)`.
C25_EmptyBuffers ==
    /\ (/\ phase = "parsed"
        /\ HasGroup
        /\ GroupOpen < Len(tokens)
        /\ tokens[GroupOpen + 1].kind = "RoundBracketEnd") =>
          result = Eof("term next")
    /\ (/\ phase = "parsed"
        /\ IsCall
        /\ C25_EmptyArguments # {}
        /\ C25_SimpleBefore) =>
          result = Eof("term next")

C25_Witness ==
    /\ phase = "parsed"
    /\ tokens = <<TVariable("x"), TSym("Dot"), TVariable("f"), TSym("RoundBracketStart"),
                  TValue(1), TSym("Comma"), TSym("Comma"), TValue(1),
                  TSym("RoundBracketEnd")>>
    /\ result = Eof("term next")

\* A percent sign of s at position i with two hexadecimal digits after it.
IsEscape(s, i) ==
    /\ s[i] = "%"
    /\ i + 2 <= Len(s)
    /\ IsAsciiHexdigit(s[i + 1])
    /\ IsAsciiHexdigit(s[i + 2])

\* Every percent sign of s starts an escape.
WellEscaped(s) == \A i \in 1..Len(s) : s[i] = "%" => IsEscape(s, i)

\* The text s stands for: every escape replaced by the character of its
\* byte, every other character kept.
RECURSIVE PercentDecoded(_)
PercentDecoded(s) ==
    IF s = <<>> THEN <<>>
    ELSE IF IsEscape(s, 1)
    THEN <<Chr(16 * ToDigit(s[2]) + ToDigit(s[3]))>> \o PercentDecoded(SubSeq(s, 4, Len(s)))
    ELSE <<Head(s)>> \o PercentDecoded(Tail(s))

\* C26: urldecode replaces each percent sign followed by two hexadecimal
\* digits by the one character of that byte and copies every other
\* character, the ones that follow an escape included (also hexadecimal
\* digits), unchanged and in order; a string without a percent sign is
\* returned as it is.
C26_UrldecodeDecodes ==
    (decoded # None /\ WellEscaped(url)) =>
        /\ decoded.string = PercentDecoded(url)
        /\ (\A i \in 1..Len(url) : url[i] # "%") => decoded.string = url

\* The positions of the character c in s, with the position before s and the
\* one after it.
Cuts(s, c) == {0, Len(s) + 1} \cup {i \in 1..Len(s) : s[i] = c}

\* The k-th smallest of a set of numbers.
Nth(ps, k) == CHOOSE p \in ps : Cardinality({q \in ps : q < p}) = k - 1

\* The k-th of the parts of s that the character c separates.
Part(s, c, k) == SubSeq(s, Nth(Cuts(s, c), k) + 1, Nth(Cuts(s, c), k + 1) - 1)

Count(s, c) == Cardinality({i \in 1..Len(s) : s[i] = c})

\* The entries of the query text q: one for each part between ampersands
\* that has exactly one equals sign, unless a later such part has the key.
C27_Entries(q) ==
    LET good == {k \in 1..(Count(q, "&") + 1) : Count(Part(q, "&", k), "=") = 1}
        key(k) == Part(Part(q, "&", k), "=", 1)
        val(k) == Part(Part(q, "&", k), "=", 2)
    IN  {<<key(k), val(k)>> : k \in {j \in good : \A l \in good : l > j => key(l) # key(j)}}

\* What Path::parse is to return for the decoded text t.
C27_Expected(t) ==
    IF Count(t, "?") = 0 THEN [ok |-> TRUE, path |-> [base |-> t, query |-> {}]]
    ELSE [ok |-> TRUE,
          path |-> [base |-> Part(t, "?", 1), query |-> C27_Entries(Part(t, "?", 2))]]

\* C27: Path::parse percent-decodes its input; without a question mark the
\* base is the whole decoded text and the query is empty; with exactly one
\* the base is the text before it and the query holds one entry for each
\* part between ampersands that has exactly one equals sign, the last one
\* for a repeated key; with two or more the result is Err(MalformedRequest).
C27_PathParse ==
    (parsed # None /\ WellEscaped(url)) =>
        IF Count(PercentDecoded(url), "?") >= 2
        THEN ~parsed.ok /\ parsed.err.kind = "MalformedRequest"
        ELSE parsed = C27_Expected(PercentDecoded(url))

C28_Digits == {"0", "1", "2", "3", "4", "5", "6", "7", "8", "9"}

C28_Number == (7 :> <<"7">>) @@ (42 :> <<"4", "2">>)

\* Where id stands in base.
C28_Occurrences(base, id) ==
    {i \in 1..(Len(base) - Len(id) + 1) : SubSeq(base, i, i + Len(id) - 1) = id}

\* The request was forwarded with the id in its base exchanged for n.
C28_Decrypted(req, n, out) ==
    /\ out.kind = "Forward"
    /\ out.request.path.query = req.path.query
    /\ out.request.id = req.id
    /\ LET occ == C28_Occurrences(req.path.base, req.id.id)
           base == req.path.base
           new == out.request.path.base
       IN  /\ occ # {}
           /\ SubSeq(new, 1, Min(occ) - 1 + Len(C28_Number[n]))
                 = SubSeq(base, 1, Min(occ) - 1) \o C28_Number[n]
           /\ Cardinality(occ) = 1 =>
                 new = SubSeq(base, 1, Min(occ) - 1) \o C28_Number[n]
                         \o SubSeq(base, Min(occ) + Len(req.id.id), Len(base))

\* C28: a request with an id is forwarded only if the id is not made of
\* numeric characters alone and decrypt_number succeeds on it, and then the
\* id in the base of its path is replaced by the decrypted number and the
\* query is the same; every other request with an id, the empty id
\* included, is stopped with not found; a request without an id is
\* forwarded as it is.
C28_SecureId ==
    outcome # None =>
        LET req == outcome.request
            out == outcome.outcome
        IN  IF req.id = NoParameter THEN out = [kind |-> "Forward", request |-> req]
            ELSE IF ~req.id.ok THEN TRUE
            ELSE IF /\ \E i \in 1..Len(req.id.id) : req.id.id[i] \notin C28_Digits
                    /\ outcome.decrypted.ok
            THEN C28_Decrypted(req, outcome.decrypted.number, out)
            ELSE out = [kind |-> "Stop", response |-> "not_found"]

\* /a1/1 with a1 bound to id and decrypted to 42 is forwarded as /42/1.
C28_Witness ==
    /\ outcome # None
    /\ outcome.request.id = Parameter(<<"a", "1">>)
    /\ outcome.request.path = [base |-> <<"/", "a", "1", "/", "1">>,
                               query |-> {<<(<<"k">>), (<<"v">>)>>}]
    /\ outcome.outcome.kind = "Forward"
    /\ outcome.outcome.request.path = [base |-> <<"/", "4", "2", "/", "1">>,
                                       query |-> {<<(<<"k">>), (<<"v">>)>>}]

C29_IsJoin(c) == c.fn = "join"

RECURSIVE C29_JoinsOf(_)
C29_JoinsOf(cs) ==
    IF cs = <<>> THEN <<>> ELSE <<"INNER JOIN", Head(cs).table>> \o C29_JoinsOf(Tail(cs))

\* C29: find_by on a Select drops every filter added before it, keeps the
\* joins and adds one equality filter on its column and a limit of one row:
\* whatever filters came before, the SQL has the joins, then one WHERE
\* condition on placeholder $1, then LIMIT 1.
C29_FindBy ==
    (calls # <<>> /\ calls[Len(calls)].fn = "find_by") =>
        /\ Len(query.where_clause) = 1
        /\ query.limit = [some |-> TRUE, n |-> 1]
        /\ ToSql(query) =
              <<"SELECT", (IF SelectSeq(calls, C29_IsJoin) = <<>> THEN "*" ELSE "users.*"),
                "FROM", "users">>
              \o C29_JoinsOf(SelectSeq(calls, C29_IsJoin))
              \o <<"WHERE", calls[Len(calls)].column, "=", "$1", "LIMIT", "1">>

============================================================================
